---------------------------- MODULE Spec2Model ----------------------------
(***************************************************************************)
(* A model of the array signal-processing engine of isac-cran-system:      *)
(* the adaptive beamforming optimizer, the ESPRIT and MUSIC direction-of-  *)
(* arrival estimators and the closed-form weight calculator.               *)
(*                                                                         *)
(* Number representation.  The Go code works on float64 / complex128.      *)
(* The model computes exactly, on the inputs for which that is possible:   *)
(*   - a complex number is a pair <<re, im>> of integers (a Gaussian       *)
(*     integer), or a record [n |-> <<re, im>>, d |-> den] where a         *)
(*     quotient is needed;                                                 *)
(*   - an angle of the optimizer is given by q = 2*sin(theta) in -2..2     *)
(*     (theta in {-pi/2, -pi/6, 0, pi/6, pi/2}); with the element spacing  *)
(*     d = 0.5 of the code the steering phase 2*pi*n*d*sin(theta) is then  *)
(*     n*q quarter turns and exp(j*phase) is a power of j;                 *)
(*   - a weight vector that the code has normalized to unit norm is kept   *)
(*     as the primitive Gaussian-integer vector on the same ray (dividing  *)
(*     by the positive real norm does not change the ray, and the          *)
(*     gradient step is linear in the weights), and every magnitude the    *)
(*     code compares is compared as a quotient of squares.                 *)
(***************************************************************************)
EXTENDS Integers, Sequences, FiniteSets, TLC

(***************************************************************************)
(* Bounds of the model.                                                    *)
(***************************************************************************)
MaxElementCount == 3
MaxIter == 2

\* a nil error; an absent record (a nil pointer); an absent slice or matrix is <<>>
Nil == "nil"
None == [none |-> TRUE]

(***************************************************************************)
(* Exact arithmetic helpers.                                               *)
(***************************************************************************)
AbsInt(x) == IF x < 0 THEN -x ELSE x

RECURSIVE Gcd(_, _)
Gcd(a, b) == IF b = 0 THEN AbsInt(a) ELSE Gcd(b, a % b)

RECURSIVE SumSeq(_)
SumSeq(s) == IF s = <<>> THEN 0 ELSE Head(s) + SumSeq(Tail(s))

RECURSIVE GcdSeq(_)
GcdSeq(s) == IF s = <<>> THEN 0 ELSE Gcd(Head(s), GcdSeq(Tail(s)))

\* a/b >= c/d for a, c >= 0 and b, d > 0, by Euclid's algorithm (no products,
\* so the comparison stays inside TLC's 32-bit integers)
RECURSIVE FracGE(_, _, _, _)
FracGE(a, b, c, d) ==
    LET ia == a \div b
        ic == c \div d
        ra == a % b
        rc == c % d
    IN  IF ia # ic THEN ia > ic
        ELSE IF rc = 0 THEN TRUE
        ELSE IF ra = 0 THEN FALSE
        ELSE FracGE(d, rc, b, ra)

\* complex128 values as Gaussian integers
CZero == <<0, 0>>
COne == <<1, 0>>
CAdd(x, y) == <<x[1] + y[1], x[2] + y[2]>>
CSub(x, y) == <<x[1] - y[1], x[2] - y[2]>>
CMul(x, y) == <<x[1] * y[1] - x[2] * y[2], x[1] * y[2] + x[2] * y[1]>>
CScale(k, x) == <<k * x[1], k * x[2]>>
CConj(x) == <<x[1], -x[2]>>
\* cmplx.Abs(x) * cmplx.Abs(x)
CAbsSq(x) == x[1] * x[1] + x[2] * x[2]

RECURSIVE CSum(_)
CSum(s) == IF s = <<>> THEN CZero ELSE CAdd(Head(s), CSum(Tail(s)))

\* cmplx.Exp(complex(0, k*pi/2)): the k-th power of j
JPow(k) ==
    CASE k % 4 = 0 -> <<1, 0>>
      [] k % 4 = 1 -> <<0, 1>>
      [] k % 4 = 2 -> <<-1, 0>>
      [] OTHER -> <<0, -1>>

\* sum of |w[n]|^2 over a vector
NormSq(w) == SumSeq([n \in 1..Len(w) |-> CAbsSq(w[n])])

(***************************************************************************)
(* State.                                                                  *)
(***************************************************************************)
VARIABLES
    optimizer,      \* the Optimizer object: elementCount, maxIterations, convergenceThreshold
    params,         \* the caller's *model.BeamformingParams
    optPc,          \* position of the Optimize call: Initial, Iterating, Analyze, Done
    weights,        \* Optimize's local weights slice
    iter,           \* Optimize's loop variable
    iterations,     \* Optimize's local iterations
    converged,      \* Optimize's local converged
    optResult,      \* the returned *model.BeamformingResult (None before the return)
    optErr,         \* the returned error ("unset" before the return)
    optTrace        \* history: the weights after each executed iteration

optVars == <<optimizer, params, optPc, weights, iter, iterations, converged,
             optResult, optErr, optTrace>>

VARIABLES
    espConfig,       \* the caller's *ESPRITConfig, which the estimator's config field points to
    espConfigGiven,  \* history: that object as the caller passed it to NewESPRITEstimator
    estimator,       \* the ESPRITEstimator's covMatrix and signalSubspace fields
    espPc,           \* Idle, New (before construction), Ready, Returned
    espSignal,       \* the caller's receivedSignal buffer of the EstimateDOA call
    espCall,         \* history of the call: library outcomes, whether the inverse failed
    espResult,       \* the returned *ESPRITResult
    espErr           \* the returned error

espVars == <<espConfig, espConfigGiven, estimator, espPc, espSignal, espCall,
             espResult, espErr>>

VARIABLES
    calculator,     \* the WeightsCalculator: elementCount, elementSpacing
    mvdrPc,         \* Idle, Ready, Returned
    mvdrCov,        \* the caller's covMatrix of the ComputeMVDRWeights call
    mvdrSteering,   \* the caller's steeringVector of that call
    mvdrWeights,    \* the returned weights
    mvdrErr         \* the error reported to the caller (the function returns none)

mvdrVars == <<calculator, mvdrPc, mvdrCov, mvdrSteering, mvdrWeights, mvdrErr>>

VARIABLES
    music,          \* the MUSIC object: elementCount, numSources, elementSpacing
    musPc,          \* Idle, Ready, Returned
    musCall,        \* the operation that ran and its arguments
    musSpectrum,    \* the spectrum of the call
    musAngles,      \* the angles (or peak indices) the call returned
    musErr          \* nil, or the panic that ended the call

musVars == <<music, musPc, musCall, musSpectrum, musAngles, musErr>>

VARIABLES
    shared,         \* one estimator used by several callers: config, covMatrix,
                    \* signalSubspace, and which call stored each of the two
    mu,             \* the estimator's mutex: 0, or the caller that holds it
    calls           \* per caller: position in EstimateDOA and its local variables

conVars == <<shared, mu, calls>>

VARIABLES
    mcEstimator,    \* the estimator of the simulation: config and the signal whose
                    \* covariance and subspace it holds
    mcArgs,         \* trueAngles, snrRange, numTrials of both simulation runs
    mcRuns,         \* per run: position in MonteCarloSimulation and its locals
    mcDraws,        \* how many times randFloat64 has been called so far
    mcOther         \* how many other calls have run on the estimator

mcVars == <<mcEstimator, mcArgs, mcRuns, mcDraws, mcOther>>

VARIABLES
    fnPc,           \* Idle, Ready, Returned
    fnCall,         \* the function that was called and its arguments
    fnOut           \* the value the call returned

fnVars == <<fnPc, fnCall, fnOut>>

VARIABLES
    taskQueue,      \* the TaskQueue: workers, the capacity of ch, whether Start has run
    qHandlers,      \* the task types of the handlers map
    qTasks,         \* the tasks map, by task ID
    qCh,            \* the task IDs buffered in the channel ch
    qSubmit,        \* per caller: position in Submit, the new task's ID, what Submit returned
    qWorkers        \* per worker goroutine: position in worker / processTask and its task

tqVars == <<taskQueue, qHandlers, qTasks, qCh, qSubmit, qWorkers>>

VARIABLES
    pool,           \* the WorkerPool: workers, queueSize, whether Start has run
    pTaskQueue,     \* the tasks buffered in the channel taskQueue
    pResults,       \* the tasks whose Result is buffered in the channel results
    pWorkers,       \* per worker goroutine: position in worker and its task
    pSubmitted,     \* per Submit call, in call order: the value it returned
    pExecuted       \* per task: how many times a worker has run it

poolVars == <<pool, pTaskQueue, pResults, pWorkers, pSubmitted, pExecuted>>

VARIABLES
    rateLimiter,    \* the RateLimiter: limit, window and the requests map (clientID to ClientInfo pointer)
    rlInfos,        \* the ClientInfo objects ever allocated: Count and ResetTime
    rlCalls,        \* the Allow call of each request handler goroutine
    rlClock,        \* what time.Now returns
    rlAllowed       \* the Allow calls that returned true: client, the call's now, and whether it opened a window

rlVars == <<rateLimiter, rlInfos, rlCalls, rlClock, rlAllowed>>

VARIABLES
    l1Cache,        \* the L1Cache: size and items (key to Expiration)
    l1Clock,        \* what time.Now returns
    l1Last          \* the last call made on the cache

l1Vars == <<l1Cache, l1Clock, l1Last>>

\* what the actions of one component leave alone
notOptVars == <<espVars, mvdrVars, musVars, conVars, mcVars, fnVars, tqVars, poolVars, rlVars, l1Vars>>
notEspVars == <<optVars, mvdrVars, musVars, conVars, mcVars, fnVars, tqVars, poolVars, rlVars, l1Vars>>
notMvdrVars == <<optVars, espVars, musVars, conVars, mcVars, fnVars, tqVars, poolVars, rlVars, l1Vars>>
notMusVars == <<optVars, espVars, mvdrVars, conVars, mcVars, fnVars, tqVars, poolVars, rlVars, l1Vars>>
notConVars == <<optVars, espVars, mvdrVars, musVars, mcVars, fnVars, tqVars, poolVars, rlVars, l1Vars>>
notMcVars == <<optVars, espVars, mvdrVars, musVars, conVars, fnVars, tqVars, poolVars, rlVars, l1Vars>>
notFnVars == <<optVars, espVars, mvdrVars, musVars, conVars, mcVars, tqVars, poolVars, rlVars, l1Vars>>
notTqVars == <<optVars, espVars, mvdrVars, musVars, conVars, mcVars, fnVars, poolVars, rlVars, l1Vars>>
notPoolVars == <<optVars, espVars, mvdrVars, musVars, conVars, mcVars, fnVars, tqVars, rlVars, l1Vars>>
notRlVars == <<optVars, espVars, mvdrVars, musVars, conVars, mcVars, fnVars, tqVars, poolVars, l1Vars>>
notL1Vars == <<optVars, espVars, mvdrVars, musVars, conVars, mcVars, fnVars, tqVars, poolVars, rlVars>>

(***************************************************************************)
(* internal/algorithm/beamforming/optimizer.go                            *)
(***************************************************************************)

\* The angles q = 2*sin(theta) the model can compute with
Directions == -2..2

\* SNR thresholds <<p, q>> = p/q, q > 0
Thresholds == {<<-1, 1>>, <<0, 1>>, <<1, 2>>, <<7, 10>>, <<9, 10>>, <<2, 1>>}

NewOptimizer(elementCount, maxIterations, threshold) ==
    [elementCount |-> elementCount,
     maxIterations |-> maxIterations,
     convergenceThreshold |-> threshold]

\* steering[n] = exp(j*2*pi*n*d*sin(angle)), d = 0.5, n = 0..elementCount-1
\* (index n+1 of the sequence is element n of the slice)
computeSteeringVector(elementCount, angle) ==
    [i \in 1..elementCount |-> JPow((i - 1) * angle)]

\* divides every weight by the norm: the primitive vector of the same ray
normalizeWeights(w) ==
    LET g == GcdSeq([i \in 1..(2 * Len(w)) |->
                        w[(i + 1) \div 2][IF i % 2 = 1 THEN 1 ELSE 2]])
    IN  IF g = 0 THEN w
        ELSE [n \in 1..Len(w) |-> <<w[n][1] \div g, w[n][2] \div g>>]

\* weights[i] = exp(-j*2*pi*i*0.5) = j^(-2i), then normalized
initializeWeights(elementCount) ==
    normalizeWeights([i \in 1..elementCount |-> JPow(-2 * (i - 1))])

\* response = sum_n w[n]*conj(steering[n])
targetResponse(w, targetAngle) ==
    LET steering == computeSteeringVector(Len(w), targetAngle)
    IN  CSum([n \in 1..Len(w) |-> CMul(w[n], CConj(steering[n]))])

\* snr = |response| of the unit-norm weights; snr >= snrThreshold
checkConvergence(w, targetAngle, snrThreshold) ==
    LET r2 == CAbsSq(targetResponse(w, targetAngle))
        n2 == NormSq(w)
        p == snrThreshold[1]
        q == snrThreshold[2]
    IN  IF p <= 0 THEN TRUE
        ELSE FracGE(r2, n2, p * p, q * q)

\* gradient[n] = sum_m weights[m]*conj(targetSteering[n])*targetSteering[m]
gradientOf(w, targetSteering) ==
    [n \in 1..Len(w) |->
        CSum([m \in 1..Len(w) |->
            CMul(CMul(w[m], CConj(targetSteering[n])), targetSteering[m])])]

\* stepSize = 0.1 / (iterations+1) = 1 / stepDen(iterations)
stepDen(its) == 10 * (its + 1)

\* weights[n] += stepSize*gradient[n], for every n, then normalizeWeights
gradientStep(w, targetSteering, its) ==
    LET gradient == gradientOf(w, targetSteering)
    IN  normalizeWeights([n \in 1..Len(w) |->
            CAdd(CScale(stepDen(its), w[n]), gradient[n])])

numPoints == 360

\* computeBeamPattern(weights, numPoints): one magnitude per grid point
beamPatternLen(w, points) == points

\* mutants of the loop condition: one pass too many, one pass too few
loopContinuesOnePassMore(o, it) == it <= o.maxIterations
loopContinuesOnePassLess(o, it) == it < o.maxIterations - 1

\* the loop condition of Optimize: iter < o.maxIterations
loopContinues(o, it) == it < o.maxIterations

\* the parameter records a caller may pass to Optimize
OptimizeParams ==
    [ElementCount : 1..MaxElementCount,
     TargetDirection : Directions,
     InterferenceAngles : {<<>>, <<1>>},
     SNRThreshold : Thresholds,
     MaxIterations : 0..MaxIter]

\* lines 27-43: the call with its params; the weights are initialized and the
\* steering vectors computed
OptimizeStart ==
    /\ optPc = "Initial"
    /\ \E p \in OptimizeParams :
         /\ params' = p
         /\ weights' = initializeWeights(p.ElementCount)
    /\ iter' = 0
    /\ iterations' = 0
    /\ converged' = FALSE
    /\ optPc' = "Iterating"
    /\ UNCHANGED <<optimizer, optResult, optErr, optTrace>>
    /\ UNCHANGED notOptVars

\* lines 45-69: one pass of the loop body
OptimizeIterate ==
    /\ optPc = "Iterating"
    /\ loopContinues(optimizer, iter)
    /\ LET its == iter + 1
           w == gradientStep(weights,
                    computeSteeringVector(params.ElementCount, params.TargetDirection),
                    its)
       IN  /\ iterations' = its
           /\ weights' = w
           /\ optTrace' = Append(optTrace, w)
           /\ IF checkConvergence(w, params.TargetDirection, params.SNRThreshold)
              THEN /\ converged' = TRUE
                   /\ optPc' = "Analyze"
                   /\ iter' = iter
              ELSE /\ converged' = converged
                   /\ optPc' = "Iterating"
                   /\ iter' = iter + 1
    /\ UNCHANGED <<optimizer, params, optResult, optErr>>
    /\ UNCHANGED notOptVars

\* line 45: the loop condition fails
OptimizeLoopExit ==
    /\ optPc = "Iterating"
    /\ ~loopContinues(optimizer, iter)
    /\ optPc' = "Analyze"
    /\ UNCHANGED <<optimizer, params, weights, iter, iterations, converged,
                   optResult, optErr, optTrace>>
    /\ UNCHANGED notOptVars

\* lines 71-97: the beam pattern, its analysis, the result record, return result, nil
OptimizeFinish ==
    /\ optPc = "Analyze"
    /\ optResult' = [Weights |-> weights,
                     BeamPatternLen |-> beamPatternLen(weights, numPoints),
                     Iterations |-> iterations,
                     Converged |-> converged]
    /\ optErr' = Nil
    /\ optPc' = "Done"
    /\ UNCHANGED <<optimizer, params, weights, iter, iterations, converged, optTrace>>
    /\ UNCHANGED notOptVars

\* the state after NewOptimizer, before Optimize is called
OptInit ==
    /\ optimizer \in {NewOptimizer(e, m, <<1, 1000>>) :
                        e \in {1, MaxElementCount}, m \in 0..MaxIter}
    /\ params = None
    /\ optPc = "Initial"
    /\ weights = <<>>
    /\ iter = 0
    /\ iterations = 0
    /\ converged = FALSE
    /\ optResult = None
    /\ optErr = "unset"
    /\ optTrace = <<>>

OptNext ==
    \/ OptimizeStart
    \/ OptimizeIterate
    \/ OptimizeLoopExit
    \/ OptimizeFinish

(***************************************************************************)
(* Properties of Optimize.                                                 *)
(***************************************************************************)

\* the response magnitude after the i-th executed iteration meets the threshold
OptMet(i) ==
    checkConvergence(optTrace[i], params.TargetDirection, params.SNRThreshold)

OptLastWeights ==
    IF optTrace = <<>> THEN initializeWeights(params.ElementCount)
    ELSE optTrace[Len(optTrace)]

C1_StateInv ==
    optPc # "Idle" =>
        /\ Len(optTrace) <= optimizer.maxIterations
        /\ \A i \in 1..(Len(optTrace) - 1) : ~OptMet(i)
        /\ optPc = "Done" =>
            /\ optErr = Nil
            /\ optResult.Converged \in BOOLEAN
            /\ optResult.Iterations = Len(optTrace)
            /\ optResult.Converged <=> (optTrace # <<>> /\ OptMet(Len(optTrace)))

\* an upper bound on the steps a call has left
OptRank ==
    CASE optPc = "Initial" -> optimizer.maxIterations + 3
      [] optPc = "Iterating" -> (optimizer.maxIterations - iter) + 2
      [] optPc = "Analyze" -> 1
      [] OTHER -> 0

\* C1: every Optimize call terminates: the call never blocks, and each of its
\* steps lowers a rank that is never negative and is 0 only once the call has
\* returned.  It runs at most o.maxIterations passes of the loop and returns a
\* nil error with converged either true or false; converged is true exactly
\* when the last executed pass met the SNR threshold, and no pass before the
\* last executed one met it (the loop stops at the first pass that does).
C1_OptimizeTerminates ==
    /\ [](C1_StateInv)
    /\ [](optPc \in {"Initial", "Iterating", "Analyze"} => OptRank > 0)
    /\ [][OptRank' < OptRank /\ OptRank' >= 0]_optVars

\* a call that converged at its second pass, not at its first
C1_Witness ==
    /\ optPc = "Done"
    /\ optResult.Converged
    /\ optResult.Iterations = 2
    /\ ~OptMet(1)
    /\ optErr = Nil

\* C2: when no pass meets the threshold the call returns converged = false;
\* and converged = false always comes with iterations = o.maxIterations, a nil
\* error, the weights of the last pass (one per element) and a 360-point beam
\* pattern.
C2_NonConvergence ==
    optPc = "Done" =>
        /\ (\A i \in 1..Len(optTrace) : ~OptMet(i)) => ~optResult.Converged
        /\ ~optResult.Converged =>
            /\ optResult.Iterations = optimizer.maxIterations
            /\ optErr = Nil
            /\ optResult.Weights = OptLastWeights
            /\ Len(optResult.Weights) = params.ElementCount
            /\ optResult.BeamPatternLen = 360

\* a call that ran two passes without meeting the threshold
C2_Witness ==
    /\ optPc = "Done"
    /\ ~optResult.Converged
    /\ optResult.Iterations >= 2
    /\ \A i \in 1..Len(optTrace) : ~OptMet(i)


(***************************************************************************)
(* Small matrix helpers (a matrix is a sequence of rows).                  *)
(***************************************************************************)
Rows(m) == Len(m)
Cols(m) == IF m = <<>> THEN 0 ELSE Len(m[1])

Perms(n) == {f \in [1..n -> 1..n] : \A a, b \in 1..n : f[a] = f[b] => a = b}

\* the sequence s without its k-th element
DropAt(s, k) == [i \in 1..(Len(s) - 1) |-> IF i < k THEN s[i] ELSE s[i + 1]]

\* determinant of a square integer matrix, by expansion along the first row
RECURSIVE Det(_)
Det(m) ==
    IF Len(m) = 0 THEN 1
    ELSE SumSeq([c \in 1..Len(m) |->
            (IF c % 2 = 1 THEN 1 ELSE -1) * m[1][c]
            * Det([r \in 1..(Len(m) - 1) |-> DropAt(m[r + 1], c)])])

\* a^T * b for integer matrices with the same number of rows
TransposeMul(a, b) ==
    [i \in 1..Cols(a) |-> [j \in 1..Cols(b) |->
        SumSeq([r \in 1..Rows(a) |-> a[r][i] * b[r][j]])]]

\* m with its column c replaced by column k of b
WithColumn(m, c, b, k) ==
    [i \in 1..Rows(m) |-> [j \in 1..Cols(m) |-> IF j = c THEN b[i][k] ELSE m[i][j]]]

\* insertion of x into a descending sequence
RECURSIVE InsertDesc(_, _)
InsertDesc(x, s) ==
    IF s = <<>> THEN <<x>>
    ELSE IF x >= Head(s) THEN <<x>> \o s
    ELSE <<Head(s)>> \o InsertDesc(x, Tail(s))

RECURSIVE SortDesc(_)
SortDesc(s) == IF s = <<>> THEN <<>> ELSE InsertDesc(Head(s), SortDesc(Tail(s)))

(***************************************************************************)
(* unnamed/part_020, package doa: the ESPRIT estimator.                    *)
(*                                                                         *)
(* ElementSpacing is counted in quarter wavelengths (2 is the code's 0.5). *)
(* SampleRate and CarrierFreq are left out: the wavelength that            *)
(* extractAngles derives from CarrierFreq cancels in its quotient.         *)
(* An angle is given by its sine <<num, den>>; asin is one-to-one.         *)
(* The snapshot matrices of the model have mutually orthogonal rows, so    *)
(* that the real matrix handed to gonum's Eigen and SVD is diagonal and    *)
(* its factorization is known exactly: the values are the diagonal, the    *)
(* singular vectors are unit vectors in the order of descending value.     *)
(* Whether gonum's Factorize reports success is an input of the call.      *)
(***************************************************************************)
MaxAntennas == 3
MaxAmp == 2

DefaultElementSpacing == 2
DefaultSnapshotLength == 256

\* lines 38-48: the defaults are written into the caller's config object
configAfterNew(config) ==
    [config EXCEPT
        !.ElementSpacing = IF config.ElementSpacing = 0
                           THEN DefaultElementSpacing ELSE @,
        !.SnapshotLength = IF config.SnapshotLength = 0
                           THEN DefaultSnapshotLength ELSE @]

NewESPRITEstimator ==
    /\ espPc = "New"
    /\ espConfig' = configAfterNew(espConfig)
    /\ estimator' = [covMatrix |-> None, signalSubspace |-> <<>>]
    /\ espPc' = "Ready"
    /\ UNCHANGED <<espConfigGiven, espSignal, espCall, espResult, espErr>>
    /\ UNCHANGED notEspVars

\* cov[i][j] = (sum_t X[i][t]*conj(X[j][t])) / N, kept as numerators over N
computeCovarianceMatrix(X) ==
    [num |-> [i \in 1..Len(X) |-> [j \in 1..Len(X) |->
                CSum([t \in 1..Len(X[1]) |-> CMul(X[i][t], CConj(X[j][t]))])]],
     den |-> Len(X[1])]

\* lines 111-121 and 142-152: real(val) on the diagonal, real(val*conj(val))
\* elsewhere; numerators over den*den
realCovOf(cov) ==
    [i \in 1..Len(cov.num) |-> [j \in 1..Len(cov.num) |->
        IF i = j THEN cov.num[i][j][1] * cov.den ELSE CAbsSq(cov.num[i][j])]]

IsDiagonal(m) == \A i, j \in 1..Len(m) : i # j => m[i][j] = 0

Diagonal(m) == [i \in 1..Len(m) |-> m[i][i]]

\* lines 108-137: zeros when Factorize fails, else the values sorted descending
computeEigenvalues(cov, eigOk) ==
    IF ~eigOk THEN [i \in 1..Len(cov.num) |-> 0]
    ELSE SortDesc(Diagonal(realCovOf(cov)))

\* the orders in which an SVD may list the unit singular vectors of a diagonal
\* matrix: descending singular value, ties in any order
SvdOrders(m) ==
    {s \in Perms(Len(m)) :
        \A a, b \in 1..Len(m) : a < b => m[s[a]][s[a]] >= m[s[b]][s[b]]}

\* U of that SVD: column j is the unit vector e_order[j]
SvdU(n, order) == [i \in 1..n |-> [j \in 1..n |-> IF order[j] = i THEN 1 ELSE 0]]

\* the size of the matrix extractSignalSubspace allocates (line 163)
signalSubspaceRows(M, numSources) == M - numSources

\* lines 139-171
extractSignalSubspace(cov, numSources, svdOk, order) ==
    LET M == Len(cov.num)
        rows == signalSubspaceRows(M, numSources)
        u == SvdU(M, order)
    IN  IF ~svdOk THEN [val |-> <<>>, err |-> "SVD factorization failed"]
        ELSE IF rows <= 0 \/ numSources <= 0
        THEN [val |-> <<>>, err |-> "panic"]
        ELSE [val |-> [i \in 1..rows |-> [j \in 1..numSources |-> u[i][j]]],
              err |-> Nil]

\* phase/pi of a diagonal entry of psi: cmplx.Phase of a real number is 0 or pi,
\* that of the placeholder exp(j*pi*i/K) is pi*i/K
phaseOverPi(entry) ==
    IF entry.kind = "unit" THEN <<entry.num, entry.den>>
    ELSE IF entry.num * entry.den < 0 THEN <<1, 1>> ELSE <<0, 1>>

\* sinTheta = phase*wavelength/(2*pi*d), clamped to [-1, 1]
clampedSine(f, spacing) ==
    LET num == 2 * f[1]
        den == f[2] * spacing
    IN  IF den > 0 /\ num > den THEN <<1, 1>>
        ELSE IF den > 0 /\ num < -den THEN <<-1, 1>>
        ELSE <<num, den>>

\* lines 243-275 (K_actual = K: psi is always K by K)
extractAngles(psi, K, spacing) ==
    [i \in 1..K |-> clampedSine(phaseOverPi(psi[i][i]), spacing)]

\* lines 219-225: the rotation operator substituted when the inverse fails
placeholderPsi(K) ==
    [i \in 1..K |-> [j \in 1..K |->
        IF i = j THEN [kind |-> "unit", num |-> i - 1, den |-> K]
        ELSE [kind |-> "real", num |-> 0, den |-> 1]]]

\* line 218: gonum's Inverse fails on a singular matrix
inverseFails(gram) == Det(gram) = 0

\* lines 198-241: psi = (Us1^T Us1)^-1 Us1^T Us2, by Cramer's rule
solveRotationMatrix(Us1, Us2, K) ==
    LET gram == TransposeMul(Us1, Us1)
        rhs == TransposeMul(Us1, Us2)
    IN  IF inverseFails(gram) THEN placeholderPsi(K)
        ELSE [i \in 1..K |-> [j \in 1..K |->
                [kind |-> "real",
                 num |-> Det(WithColumn(gram, i, rhs, j)),
                 den |-> Det(gram)]]]

\* line 175: the size check of espritCore
subspaceTooSmall(rows, M) == rows < M - 1

\* lines 173-196
espritCore(sub, M, K, spacing) ==
    LET rows == Rows(sub)
        cols == Cols(sub)
        Us1 == sub
        Us2 == [i \in 1..rows |-> [j \in 1..cols |->
                    IF i + 1 <= rows THEN sub[i + 1][j] ELSE 0]]
    IN  IF subspaceTooSmall(rows, M)
        THEN [val |-> <<>>, err |-> "signal subspace too small", singular |-> FALSE]
        ELSE [val |-> extractAngles(solveRotationMatrix(Us1, Us2, K), K, spacing),
              err |-> Nil,
              singular |-> inverseFails(TransposeMul(Us1, Us1))]

\* lines 78-81: the result record; it has no field that marks degeneracy
newESPRITResult(angles, eigenvalues) ==
    [Angles |-> angles, RMSE |-> 0, SuccessRate |-> 0, ProcessingTime |-> 0,
     Eigenvalues |-> eigenvalues]

\* lines 50-87, under the estimator's mutex: what the call returns and stores
estimateDOA(config, X, eigOk, svdOk, order) ==
    LET M == config.NumAntennas
        K == config.NumSources
        cov == computeCovarianceMatrix(X)
        eigenvalues == computeEigenvalues(cov, eigOk)
        sub == extractSignalSubspace(cov, K, svdOk, order)
        core == espritCore(sub.val, M, K, config.ElementSpacing)
        none == [result |-> None, store |-> FALSE, cov |-> None, sub |-> <<>>,
                 singular |-> FALSE]
    IN  IF Len(X) # M
        THEN none @@ [err |-> "signal dimension mismatch"]
        ELSE IF sub.err # Nil
        THEN none @@ [err |-> IF sub.err = "panic" THEN "panic"
                              ELSE "extract signal subspace failed"]
        ELSE IF core.err # Nil
        THEN [none EXCEPT !.sub = sub.val]
             @@ [err |-> "esprit core computation failed"]
        ELSE [result |-> newESPRITResult(core.val, eigenvalues), store |-> TRUE,
              cov |-> cov, sub |-> sub.val, singular |-> core.singular,
              err |-> Nil]

\* snapshot matrices with one sample per antenna, X[i][t] = amp[i] if t = i, else
\* 0, and a different power on every antenna (so the order of the singular
\* vectors is determined)
SnapshotInputs ==
    UNION {{[i \in 1..m |-> [t \in 1..m |-> IF t = i THEN <<amp[i], 0>> ELSE CZero]] :
              amp \in {a \in [1..m -> 0..MaxAmp] :
                         \A x, y \in 1..m : a[x] = a[y] => x = y}} :
           m \in 2..MaxAntennas}

EstimateDOA ==
    /\ espPc = "Ready"
    /\ \E X \in SnapshotInputs, eigOk \in BOOLEAN, svdOk \in BOOLEAN :
         \E order \in SvdOrders(realCovOf(computeCovarianceMatrix(X))) :
            LET out == estimateDOA(espConfig, X, eigOk, svdOk, order)
            IN  /\ espSignal' = X
                /\ espCall' = [signal |-> X, eigOk |-> eigOk, svdOk |-> svdOk,
                               singular |-> out.singular, subspace |-> out.sub]
                /\ espResult' = out.result
                /\ espErr' = out.err
                /\ estimator' = IF out.store
                                THEN [covMatrix |-> out.cov, signalSubspace |-> out.sub]
                                ELSE estimator
    /\ espPc' = "Returned"
    /\ UNCHANGED <<espConfig, espConfigGiven>>
    /\ UNCHANGED notEspVars

EspConfigs ==
    [NumAntennas : 2..MaxAntennas,
     NumSources : 1..MaxAntennas,
     ElementSpacing : {0, 2, 4},
     SnapshotLength : {0, 4}]

EspInit ==
    /\ espConfig \in EspConfigs
    /\ espConfigGiven = espConfig
    /\ estimator = None
    /\ espPc = "New"
    /\ espSignal = <<>>
    /\ espCall = None
    /\ espResult = None
    /\ espErr = "unset"

EspIdle ==
    /\ espConfig = None
    /\ espConfigGiven = None
    /\ estimator = None
    /\ espPc = "Idle"
    /\ espSignal = <<>>
    /\ espCall = None
    /\ espResult = None
    /\ espErr = "unset"

OptIdle ==
    /\ optimizer = None
    /\ params = None
    /\ optPc = "Idle"
    /\ weights = <<>>
    /\ iter = 0
    /\ iterations = 0
    /\ converged = FALSE
    /\ optResult = None
    /\ optErr = "unset"
    /\ optTrace = <<>>

EspNext ==
    \/ NewESPRITEstimator
    \/ EstimateDOA

(***************************************************************************)
(* Properties of the ESPRIT estimator.                                     *)
(***************************************************************************)

EspReturned == espPc = "Returned"

\* the call got past the dimension check, so the factorizations ran
EspRan == EspReturned /\ Len(espSignal) = espConfig.NumAntennas

HasDegenerateMarker(r) ==
    /\ r # None
    /\ "Degenerate" \in DOMAIN r
    /\ r.Degenerate = TRUE

\* C3: when Us1^T*Us1 could not be inverted, the result of EstimateDOA carries
\* a degenerate = true marker.
C3_DegenerateIsFlagged ==
    (EspReturned /\ espCall.singular) => HasDegenerateMarker(espResult)

\* C4: when the eigen or the singular-value factorization failed, EstimateDOA
\* returns an error and no result.
C4_FactorizationFailureIsAnError ==
    (EspRan /\ (~espCall.eigOk \/ ~espCall.svdOk)) =>
        (espErr # Nil /\ espResult = None)

\* C9: for M >= 2 antennas and 0 < K < M sources (and a singular-value
\* factorization that succeeded) EstimateDOA builds an M-by-K signal subspace
\* and returns K angles with a nil error.
C9_EspritReturnsKAngles ==
    (/\ EspRan
     /\ espConfig.NumAntennas >= 2
     /\ 0 < espConfig.NumSources
     /\ espConfig.NumSources < espConfig.NumAntennas
     /\ espCall.svdOk) =>
        /\ espErr = Nil
        /\ Len(espResult.Angles) = espConfig.NumSources
        /\ Rows(espCall.subspace) = espConfig.NumAntennas
        /\ Cols(espCall.subspace) = espConfig.NumSources

\* C10: the objects the caller passed in are as the caller passed them when the
\* call has returned: the configuration after NewESPRITEstimator, the snapshot
\* matrix after EstimateDOA.
C10_CallerInputsUnchanged ==
    /\ espPc \in {"Ready", "Returned"} => espConfig = espConfigGiven
    /\ EspReturned => espSignal = espCall.signal


(***************************************************************************)
(* unnamed/part_019, package beamforming: the weights calculator.          *)
(*                                                                         *)
(* A complex128 of this part is an exact quotient [n |-> <<re, im>>,       *)
(* d |-> den] with den > 0, or the value NonFinite (d = 0): the NaN or     *)
(* infinity that IEEE arithmetic gives for a division by zero, and for     *)
(* every operation that has such an operand.                               *)
(***************************************************************************)
MaxMatrixDim == 2
MaxCovEntry == 2

NonFinite == [n |-> CZero, d |-> 0]
IsFinite(x) == x.d # 0

\* the quotient n/d in lowest terms with a positive denominator
QReduce(n, d) ==
    LET g == Gcd(Gcd(AbsInt(n[1]), AbsInt(n[2])), AbsInt(d))
        sgn == IF d < 0 THEN -1 ELSE 1
    IN  [n |-> <<sgn * (n[1] \div g), sgn * (n[2] \div g)>>, d |-> sgn * (d \div g)]

QOf(c) == [n |-> c, d |-> 1]
QZero == QOf(CZero)
QOne == QOf(COne)

QAdd(x, y) ==
    IF ~IsFinite(x) \/ ~IsFinite(y) THEN NonFinite
    ELSE QReduce(CAdd(CScale(y.d, x.n), CScale(x.d, y.n)), x.d * y.d)

QSub(x, y) ==
    IF ~IsFinite(x) \/ ~IsFinite(y) THEN NonFinite
    ELSE QReduce(CSub(CScale(y.d, x.n), CScale(x.d, y.n)), x.d * y.d)

QMul(x, y) ==
    IF ~IsFinite(x) \/ ~IsFinite(y) THEN NonFinite
    ELSE QReduce(CMul(x.n, y.n), x.d * y.d)

\* x / y; a zero divisor gives NaN or an infinity
QDiv(x, y) ==
    IF ~IsFinite(x) \/ ~IsFinite(y) \/ y.n = CZero THEN NonFinite
    ELSE QReduce(CScale(y.d, CMul(x.n, CConj(y.n))), x.d * CAbsSq(y.n))

QConj(x) == [n |-> CConj(x.n), d |-> x.d]

RECURSIVE QSum(_)
QSum(s) == IF s = <<>> THEN QZero ELSE QAdd(Head(s), QSum(Tail(s)))

NewWeightsCalculator(elementCount, elementSpacing) ==
    [elementCount |-> elementCount, elementSpacing |-> elementSpacing]

\* lines 81-88: the augmented matrix [matrix | I]
augmented(matrix) ==
    [i \in 1..Len(matrix) |-> [j \in 1..(2 * Len(matrix)) |->
        IF j <= Len(matrix) THEN QOf(matrix[i][j])
        ELSE IF j = Len(matrix) + i THEN QOne ELSE QZero]]

\* lines 91-102: row i is divided by its pivot aug[i][i], whatever the pivot is,
\* and a multiple of it is subtracted from every other row
eliminate(aug, i) ==
    CHOOSE out \in
        {[k \in 1..Len(aug) |->
            IF k = i THEN rowI
            ELSE [j \in 1..Len(aug[k]) |->
                    QSub(aug[k][j], QMul(aug[k][i], rowI[j]))]] :
         rowI \in {[j \in 1..Len(aug[i]) |-> QDiv(aug[i][j], aug[i][i])]}} : TRUE

\* lines 90-103: the loop over i
RECURSIVE gaussJordan(_, _)
gaussJordan(aug, i) ==
    IF i > Len(aug) THEN aug
    ELSE CHOOSE out \in {gaussJordan(next, i + 1) : next \in {eliminate(aug, i)}} : TRUE

\* lines 79-114
matrixInverse(matrix) ==
    CHOOSE inverse \in
        {[i \in 1..Len(matrix) |-> [j \in 1..Len(matrix) |-> aug[i][Len(matrix) + j]]] :
         aug \in {gaussJordan(augmented(matrix), 1)}} : TRUE

\* lines 43-66: weights = C^-1 a / (a^H C^-1 a); no check, no error, no
\* normalization
\* lines 47-54: weights[i] = sum over j of invCov[i][j] * steeringVector[j]
mvdrNumerator(invCov, steeringVector) ==
    [i \in 1..Len(steeringVector) |->
        QSum([j \in 1..Len(steeringVector) |->
                QMul(invCov[i][j], QOf(steeringVector[j]))])]

\* lines 56-59: denom = sum over i of conj(steeringVector[i]) * weights[i]
mvdrDenominator(w, steeringVector) ==
    QSum([i \in 1..Len(steeringVector) |->
            QMul(QConj(QOf(steeringVector[i])), w[i])])

ComputeMVDRWeights(covMatrix, steeringVector) ==
    CHOOSE out \in
        {[i \in 1..Len(steeringVector) |-> QDiv(w[i], denom)] :
         <<w, denom>> \in
            {<<num, mvdrDenominator(num, steeringVector)>> :
                num \in {mvdrNumerator(invCov, steeringVector) :
                            invCov \in {matrixInverse(covMatrix)}}}} : TRUE

\* Hermitian matrices with small entries
CovInputs ==
    UNION {{[i \in 1..n |-> [j \in 1..n |->
                IF i = j THEN <<diag[i], 0>>
                ELSE IF i < j THEN off[<<i, j>>] ELSE CConj(off[<<j, i>>])]] :
              diag \in [1..n -> 0..MaxCovEntry],
              off \in [{p \in (1..n) \X (1..n) : p[1] < p[2]} -> {CZero, COne, <<0, 1>>}]} :
           n \in 1..MaxMatrixDim}

\* steering vectors of n elements, half a wavelength apart
SteeringInputs(n) == {[i \in 1..n |-> JPow((i - 1) * q)] : q \in Directions}

MVDRCall ==
    /\ mvdrPc = "Ready"
    /\ \E cov \in CovInputs :
         \E a \in SteeringInputs(Len(cov)) :
            /\ mvdrCov' = cov
            /\ mvdrSteering' = a
            /\ mvdrWeights' = ComputeMVDRWeights(cov, a)
    /\ mvdrErr' = Nil
    /\ mvdrPc' = "Returned"
    /\ UNCHANGED calculator
    /\ UNCHANGED notMvdrVars

MvdrInit ==
    /\ calculator \in {NewWeightsCalculator(n, DefaultElementSpacing) :
                         n \in 1..MaxMatrixDim}
    /\ mvdrPc = "Ready"
    /\ mvdrCov = <<>>
    /\ mvdrSteering = <<>>
    /\ mvdrWeights = <<>>
    /\ mvdrErr = "unset"

MvdrIdle ==
    /\ calculator = None
    /\ mvdrPc = "Idle"
    /\ mvdrCov = <<>>
    /\ mvdrSteering = <<>>
    /\ mvdrWeights = <<>>
    /\ mvdrErr = "unset"

MvdrNext ==
    \/ MVDRCall

(***************************************************************************)
(* Properties of the weights calculator.                                   *)
(***************************************************************************)

\* determinant of a square matrix of Gaussian integers
RECURSIVE CDet(_)
CDet(m) ==
    IF Len(m) = 0 THEN COne
    ELSE CSum([c \in 1..Len(m) |->
            CScale(IF c % 2 = 1 THEN 1 ELSE -1,
                   CMul(m[1][c], CDet([r \in 1..(Len(m) - 1) |-> DropAt(m[r + 1], c)])))])

Invertible(m) == CDet(m) # CZero

\* C5: ComputeMVDRWeights reports SingularCovariance when the covariance matrix
\* is not invertible, and the weights it returns are never the outcome of a
\* division by zero.
C5_SingularCovarianceReported ==
    mvdrPc = "Returned" =>
        /\ ~Invertible(mvdrCov) => mvdrErr = "SingularCovariance"
        /\ mvdrErr = Nil => \A i \in 1..Len(mvdrWeights) : IsFinite(mvdrWeights[i])

(***************************************************************************)
(* package doa: MUSIC (internal/algorithm/rateless/encoder.go, lines 200   *)
(* to 344) and the MUSIC branch of Estimator (unnamed/part_020).           *)
(*                                                                         *)
(* eigenDecomposition returns unit vectors, so the projection of a         *)
(* steering vector on a noise vector is one steering element, of modulus   *)
(* one.  Element 0 has phase 0 and modulus exactly 1; for the other        *)
(* elements cmplx.Abs(cmplx.Exp(...)) is 1 up to a rounding error, which   *)
(* is an input of the call.  A denominator is kept in units of             *)
(* 1/UlpsPerUnit, and a spectrum value as an integer level that orders     *)
(* the values as the floats are ordered.                                   *)
(***************************************************************************)
MaxArray == 3
MaxNoisyPoints == 4
MaxSpectrumLen == 5
MaxLevel == 2
UlpsPerUnit == 8

numSearchPoints == 360
sentinelLevel == 100

NewMUSIC(elementCount, numSources, elementSpacing) ==
    [elementCount |-> elementCount, numSources |-> numSources,
     elementSpacing |-> elementSpacing]

swapAt(s, i, j) ==
    [k \in 1..Len(s) |-> IF k = i THEN s[j] ELSE IF k = j THEN s[i] ELSE s[k]]

\* the inner loop of the sort: entry i against every later entry j
RECURSIVE sortInner(_, _, _)
sortInner(s, i, j) ==
    IF j > Len(s) THEN s
    ELSE CHOOSE out \in
            {sortInner(next, i, j + 1) :
               next \in {IF s[i].value < s[j].value THEN swapAt(s, i, j) ELSE s}} : TRUE

\* the outer loop of the sort; the result is in descending order of value
RECURSIVE sortOuter(_, _)
sortOuter(s, i) ==
    IF i >= Len(s) THEN s
    ELSE CHOOSE out \in {sortOuter(next, i + 1) : next \in {sortInner(s, i, i + 1)}} : TRUE

\* lines 262-291 (and part_020 650-678): eigenvalue i is the power of row i over
\* n, eigenvector i is the unit vector of index i (here: that index), and both
\* are sorted by descending eigenvalue.  The power is kept times n.
eigenDecomposition(matrix) ==
    CHOOSE out \in
        {[eigenvalues |-> [i \in 1..Len(matrix) |-> sorted[i].value],
          eigenvectors |-> [i \in 1..Len(matrix) |-> sorted[i].index]] :
         sorted \in
            {sortOuter([i \in 1..Len(matrix) |->
                          [value |-> SumSeq([j \in 1..Len(matrix) |-> CAbsSq(matrix[i][j])]),
                           index |-> i]], 1)}} : TRUE

\* part_020 680-690 and encoder.go 224-227: eigenvectors numSources.. of M;
\* make() panics on a negative length, an index below 0 is out of range
extractNoiseSubspace(eigenvectors, numSources) ==
    IF Len(eigenvectors) - numSources < 0 THEN
        [val |-> <<>>, err |-> "panic: makeslice: len out of range"]
    ELSE IF numSources < 0 THEN
        [val |-> <<>>, err |-> "panic: index out of range"]
    ELSE [val |-> [i \in 1..(Len(eigenvectors) - numSources) |-> eigenvectors[numSources + i]],
          err |-> Nil]

\* |proj|^2 for one noise vector at grid point p, in units of 1/UlpsPerUnit
projectionPower(noiseVector, p, rounding) ==
    IF noiseVector = 1 \/ p > Len(rounding) THEN UlpsPerUnit
    ELSE UlpsPerUnit + rounding[p]

\* lines 234-241: denom for grid point p
spectrumDenominator(noiseSubspace, p, rounding) ==
    SumSeq([k \in 1..Len(noiseSubspace) |-> projectionPower(noiseSubspace[k], p, rounding)])

\* lines 243-247: 10*log10(1/denom), or the sentinel when denom is not above 1e-10
spectrumLevel(denom) == IF denom > 0 THEN -denom ELSE sentinelLevel

\* lines 221-251
ComputeSpectrum(m, covMatrix, numAngles, rounding) ==
    CHOOSE out \in
        {IF noise.err # Nil THEN [val |-> <<>>, err |-> noise.err]
         ELSE [val |-> [p \in 1..numAngles |->
                          spectrumLevel(spectrumDenominator(noise.val, p, rounding))],
               err |-> Nil] :
         noise \in {extractNoiseSubspace(eigenDecomposition(covMatrix).eigenvectors,
                                         m.numSources)}} : TRUE

\* the elements of a finite set of integers in ascending order
RECURSIVE ascending(_)
ascending(S) ==
    IF S = {} THEN <<>>
    ELSE LET least == CHOOSE x \in S : \A y \in S : x <= y
         IN  <<least>> \o ascending(S \ {least})

\* lines 320-324: the strict local maxima, in index order (indices from 0)
strictMaxima(spectrum) ==
    CHOOSE out \in
        {[k \in 1..Len(at) |-> [index |-> at[k] - 1, value |-> spectrum[at[k]]]] :
         at \in {ascending({i \in 2..(Len(spectrum) - 1) :
                    spectrum[i] > spectrum[i - 1] /\ spectrum[i] > spectrum[i + 1]})}} : TRUE

truncatePeaksNever(peaks, numPeaks) == peaks

\* lines 334-336
truncatePeaks(peaks, numPeaks) ==
    IF Len(peaks) > numPeaks THEN SubSeq(peaks, 1, numPeaks) ELSE peaks

\* lines 312-344
findPeaks(spectrum, numPeaks) ==
    CHOOSE out \in
        {[i \in 1..Len(peaks) |-> peaks[i].index] :
         peaks \in {truncatePeaks(sortOuter(strictMaxima(spectrum), 1), numPeaks)}} : TRUE

\* -pi/2 + i*pi/n, as <<num, den>> in units of pi
angleOfIndex(i, n) == <<2 * i - n, 2 * n>>

\* part_020 692-724: the same peaks, as angles of a grid of len(spectrum) points
estimatorFindPeaks(spectrum, numPeaks) ==
    CHOOSE out \in
        {[i \in 1..Len(idx) |-> angleOfIndex(idx[i], Len(spectrum))] :
         idx \in {findPeaks(spectrum, numPeaks)}} : TRUE

\* lines 293-310
musicEstimateDOA(m, covMatrix, rounding) ==
    CHOOSE out \in
        {IF spectrum.err # Nil THEN [spectrum |-> <<>>, angles |-> <<>>, err |-> spectrum.err]
         ELSE CHOOSE result \in
                {[spectrum |-> spectrum.val,
                  angles |-> [i \in 1..Len(peaks) |->
                                angleOfIndex(peaks[i], numSearchPoints)],
                  err |-> Nil] :
                 peaks \in {findPeaks(spectrum.val, m.numSources)}} : TRUE :
         spectrum \in {ComputeSpectrum(m, covMatrix, numSearchPoints, rounding)}} : TRUE

\* part_020 538-579: the same computation from params, with 1/denom and 1e10
musicAlgorithm(doaParams, covMatrix, rounding) ==
    CHOOSE out \in
        {IF spectrum.err # Nil THEN [spectrum |-> <<>>, angles |-> <<>>, err |-> spectrum.err]
         ELSE [spectrum |-> spectrum.val,
               angles |-> estimatorFindPeaks(spectrum.val, doaParams.NumSources),
               err |-> Nil] :
         spectrum \in {ComputeSpectrum(NewMUSIC(doaParams.ElementCount, doaParams.NumSources,
                                                DefaultElementSpacing),
                                       covMatrix, numSearchPoints, rounding)}} : TRUE

\* diagonal covariance matrices of n antennas, each with power 0 or 1
MusicCovInputs(n) ==
    {[i \in 1..n |-> [j \in 1..n |-> IF i = j THEN <<diag[i], 0>> ELSE CZero]] :
       diag \in [1..n -> {0, 1}]}

\* the rounding errors of the first grid points (exact, or one unit low), the
\* other points being exact
RoundingInputs == [1..MaxNoisyPoints -> {-1, 0}]

\* NewMUSIC(elementCount, numSources, 0.5)
NewMUSICObject ==
    /\ musPc = "Ready"
    /\ \E elementCount \in 1..MaxArray :
         \E numSources \in 0..MaxArray :
            music' = NewMUSIC(elementCount, numSources, DefaultElementSpacing)
    /\ musPc' = "Constructed"
    /\ UNCHANGED <<musCall, musSpectrum, musAngles, musErr>>
    /\ UNCHANGED notMusVars

\* MUSIC.EstimateDOA(covMatrix)
MUSICEstimateDOA ==
    /\ musPc = "Constructed"
    /\ \E cov \in MusicCovInputs(music.elementCount) :
         \E rounding \in RoundingInputs :
            \E r \in {musicEstimateDOA(music, cov, rounding)} :
                /\ musCall' = [op |-> "EstimateDOA", elementCount |-> music.elementCount,
                               numSources |-> music.numSources, cov |-> cov,
                               numAngles |-> numSearchPoints]
                /\ musSpectrum' = r.spectrum
                /\ musAngles' = r.angles
                /\ musErr' = r.err
    /\ musPc' = "Returned"
    /\ UNCHANGED music
    /\ UNCHANGED notMusVars

\* MUSIC.ComputeSpectrum(covMatrix, searchAngles)
MUSICComputeSpectrum ==
    /\ musPc = "Constructed"
    /\ \E cov \in MusicCovInputs(music.elementCount) :
         \E numAngles \in 0..MaxSpectrumLen :
            \E rounding \in RoundingInputs :
               \E r \in {ComputeSpectrum(music, cov, numAngles, rounding)} :
                   /\ musCall' = [op |-> "ComputeSpectrum",
                                  elementCount |-> music.elementCount,
                                  numSources |-> music.numSources, cov |-> cov,
                                  numAngles |-> numAngles]
                   /\ musSpectrum' = r.val
                   /\ musErr' = r.err
    /\ musAngles' = <<>>
    /\ musPc' = "Returned"
    /\ UNCHANGED music
    /\ UNCHANGED notMusVars

\* Estimator.musicAlgorithm(data, params); the covariance of the received
\* signal, which holds random noise, is an input
EstimatorMusicAlgorithm ==
    /\ musPc = "Ready"
    /\ \E elementCount \in 1..MaxArray :
         \E numSources \in 0..MaxArray :
            \E cov \in MusicCovInputs(elementCount) :
               \E rounding \in RoundingInputs :
                  \E r \in {musicAlgorithm([ElementCount |-> elementCount,
                                            NumSources |-> numSources], cov, rounding)} :
                      /\ musCall' = [op |-> "musicAlgorithm", elementCount |-> elementCount,
                                     numSources |-> numSources, cov |-> cov,
                                     numAngles |-> numSearchPoints]
                      /\ musSpectrum' = r.spectrum
                      /\ musAngles' = r.angles
                      /\ musErr' = r.err
    /\ musPc' = "Returned"
    /\ UNCHANGED music
    /\ UNCHANGED notMusVars

\* findPeaks(spectrum, numPeaks) on any spectrum; it reads no field of its
\* receiver
FindPeaks ==
    /\ musPc = "Ready"
    /\ \E n \in 0..MaxSpectrumLen :
         \E spectrum \in [1..n -> 0..MaxLevel] :
            \E numPeaks \in 0..MaxArray :
               /\ musCall' = [op |-> "findPeaks", elementCount |-> 0,
                              numSources |-> numPeaks, cov |-> <<>>, numAngles |-> n]
               /\ musSpectrum' = spectrum
               /\ musAngles' = findPeaks(spectrum, numPeaks)
    /\ musErr' = Nil
    /\ musPc' = "Returned"
    /\ UNCHANGED music
    /\ UNCHANGED notMusVars

\* the most peaks of a spectrum built from its peak values
MaxPeaks == 3

\* the spectrum 0, v1, 0, v2, 0, ...: every value v >= 1 is a strict local
\* maximum, at an odd index
peaksApart(values) ==
    [i \in 1..(2 * Len(values) + 1) |-> IF i % 2 = 0 THEN values[i \div 2] ELSE 0]

\* findPeaks(spectrum, numPeaks) on a spectrum with up to MaxPeaks peaks
FindPeaksAmongMany ==
    /\ musPc = "Ready"
    /\ \E n \in 0..MaxPeaks :
         \E values \in [1..n -> 1..MaxLevel] :
            \E numPeaks \in 0..MaxArray :
               /\ musCall' = [op |-> "findPeaks", elementCount |-> 0,
                              numSources |-> numPeaks, cov |-> <<>>,
                              numAngles |-> 2 * n + 1]
               /\ musSpectrum' = peaksApart(values)
               /\ musAngles' = findPeaks(peaksApart(values), numPeaks)
    /\ musErr' = Nil
    /\ musPc' = "Returned"
    /\ UNCHANGED music
    /\ UNCHANGED notMusVars

MusInit ==
    /\ music = None
    /\ musPc = "Ready"
    /\ musCall = None
    /\ musSpectrum = <<>>
    /\ musAngles = <<>>
    /\ musErr = "unset"

MusIdle ==
    /\ music = None
    /\ musPc = "Idle"
    /\ musCall = None
    /\ musSpectrum = <<>>
    /\ musAngles = <<>>
    /\ musErr = "unset"

MusNext ==
    \/ NewMUSICObject
    \/ MUSICEstimateDOA
    \/ MUSICComputeSpectrum
    \/ EstimatorMusicAlgorithm
    \/ FindPeaks
    \/ FindPeaksAmongMany

(***************************************************************************)
(* Properties of MUSIC.                                                    *)
(***************************************************************************)
MusReturned == musPc = "Returned"
MusEstimated == MusReturned /\ musCall.op \in {"EstimateDOA", "musicAlgorithm"}

\* C6: with a source count K >= M the decomposition fails with an
\* InvalidSourceCount error, and no spectrum is built from an empty or
\* negative-size noise subspace.
C6_InvalidSourceCountReported ==
    (MusReturned /\ musCall.op # "findPeaks" /\ musCall.numSources >= musCall.elementCount) =>
        /\ musErr = "InvalidSourceCount"
        /\ musSpectrum = <<>>

\* C7: MUSIC EstimateDOA returns exactly K angles, without an error, also when
\* the spectrum has fewer than K strict local maxima.
C7_ExactlyKAngles ==
    (MusEstimated /\ musCall.numSources < musCall.elementCount) =>
        /\ musErr = Nil
        /\ Len(musAngles) = musCall.numSources

\* C8: the number of angles MUSIC estimation returns never exceeds the requested
\* number of sources, for any spectrum, and the spectrum has one value per
\* search angle.
C8_AtMostKAngles ==
    (MusReturned /\ musErr = Nil) =>
        /\ musCall.op # "ComputeSpectrum" => Len(musAngles) <= musCall.numSources
        /\ Len(musSpectrum) = musCall.numAngles

\* C8 witness: an estimate whose spectrum has more strict local maxima than the
\* requested sources, cut to the requested number
C8_Witness ==
    /\ MusEstimated
    /\ musErr = Nil
    /\ musCall.numSources >= 1
    /\ Len(strictMaxima(musSpectrum)) > musCall.numSources
    /\ Len(musAngles) = musCall.numSources
    /\ Len(musSpectrum) = numSearchPoints

(***************************************************************************)
(* unnamed/part_020: EstimateDOA called by several goroutines on one       *)
(* estimator.  ESPRITEstimator.EstimateDOA (lines 50-87) runs under the    *)
(* estimator's mutex; TLS_ESPRITEstimator.EstimateDOA (lines 428-447)      *)
(* takes no lock and only reads the configuration.  The local variables    *)
(* of a call are fields of calls[c].                                       *)
(***************************************************************************)
Callers == {1, 2}

\* the configurations of the shared estimator, after NewESPRITEstimator
ConcurrentConfigs ==
    [NumAntennas : {2, 3}, NumSources : {1, 2},
     ElementSpacing : {DefaultElementSpacing}, SnapshotLength : {4}]

\* the buffers a caller may pass: the snapshot matrices of M antennas whose
\* amplitudes are 0 .. M-1 in some order, or twice that
ConcurrentSignals(M) ==
    {[i \in 1..M |-> [t \in 1..M |->
        IF t = i THEN <<scale * (amp[i] - 1), 0>> ELSE CZero]] :
       amp \in Perms(M), scale \in {1, 2}}

\* the order of the singular vectors of the covariance of X (unique: the powers
\* differ)
svdOrderOf(cov) == CHOOSE order \in SvdOrders(realCovOf(cov)) : TRUE

idleCall ==
    [pc |-> "Idle", op |-> "none", signal |-> <<>>, covMatrix |-> None,
     eigenvalues |-> <<>>, signalSubspace |-> <<>>, angles |-> <<>>,
     result |-> None, err |-> "unset"]

lockTakenAnyway(m) == TRUE

\* line 51: e.mu.Lock() proceeds only when no call holds the mutex
lockFree(m) == m = 0

\* a caller enters ESPRITEstimator.EstimateDOA with a buffer of its own
ConCall(c) ==
    /\ calls[c].pc = "Idle"
    /\ \E X \in ConcurrentSignals(shared.config.NumAntennas) :
         calls' = [calls EXCEPT ![c] = [@ EXCEPT !.pc = "Lock", !.op = "ESPRIT",
                                                 !.signal = X]]
    /\ UNCHANGED <<shared, mu>>
    /\ UNCHANGED notConVars

\* line 51
ConLock(c) ==
    /\ calls[c].pc = "Lock"
    /\ lockFree(mu)
    /\ mu' = c
    /\ calls' = [calls EXCEPT ![c].pc = "Covariance"]
    /\ UNCHANGED shared
    /\ UNCHANGED notConVars

\* lines 64-66: covMatrix and eigenvalues, locals of the call
ConCovariance(c) ==
    /\ calls[c].pc = "Covariance"
    /\ \E cov \in {computeCovarianceMatrix(calls[c].signal)} :
         calls' = [calls EXCEPT ![c] = [@ EXCEPT !.pc = "Subspace",
                                                 !.covMatrix = cov,
                                                 !.eigenvalues = computeEigenvalues(cov, TRUE)]]
    /\ UNCHANGED <<shared, mu>>
    /\ UNCHANGED notConVars

\* lines 68-71: signalSubspace, a local; on an error the deferred Unlock runs
ConSubspace(c) ==
    /\ calls[c].pc = "Subspace"
    /\ \E sub \in {extractSignalSubspace(calls[c].covMatrix, shared.config.NumSources,
                                        TRUE, svdOrderOf(calls[c].covMatrix))} :
         IF sub.err # Nil
         THEN /\ calls' = [calls EXCEPT ![c] = [@ EXCEPT !.pc = "Returned",
                              !.err = IF sub.err = "panic" THEN "panic"
                                      ELSE "extract signal subspace failed"]]
              /\ mu' = 0
         ELSE /\ calls' = [calls EXCEPT ![c] = [@ EXCEPT !.pc = "Core",
                                                         !.signalSubspace = sub.val]]
              /\ mu' = mu
    /\ UNCHANGED shared
    /\ UNCHANGED notConVars

\* lines 73-76
ConCore(c) ==
    /\ calls[c].pc = "Core"
    /\ \E core \in {espritCore(calls[c].signalSubspace, shared.config.NumAntennas,
                               shared.config.NumSources, shared.config.ElementSpacing)} :
         IF core.err # Nil
         THEN /\ calls' = [calls EXCEPT ![c] = [@ EXCEPT !.pc = "Returned",
                              !.err = "esprit core computation failed"]]
              /\ mu' = 0
         ELSE /\ calls' = [calls EXCEPT ![c] = [@ EXCEPT !.pc = "StoreCov",
                                                         !.angles = core.val]]
              /\ mu' = mu
    /\ UNCHANGED shared
    /\ UNCHANGED notConVars

\* line 83: e.covMatrix = covMatrix
ConStoreCov(c) ==
    /\ calls[c].pc = "StoreCov"
    /\ shared' = [shared EXCEPT !.covMatrix = calls[c].covMatrix, !.covBy = c]
    /\ calls' = [calls EXCEPT ![c].pc = "StoreSub"]
    /\ UNCHANGED mu
    /\ UNCHANGED notConVars

\* line 84: e.signalSubspace = signalSubspace
ConStoreSub(c) ==
    /\ calls[c].pc = "StoreSub"
    /\ shared' = [shared EXCEPT !.signalSubspace = calls[c].signalSubspace, !.subBy = c]
    /\ calls' = [calls EXCEPT ![c].pc = "Return"]
    /\ UNCHANGED mu
    /\ UNCHANGED notConVars

\* lines 78-81 and 86, then the deferred Unlock of line 52
ConReturn(c) ==
    /\ calls[c].pc = "Return"
    /\ calls' = [calls EXCEPT ![c] = [@ EXCEPT !.pc = "Returned",
                    !.result = newESPRITResult(calls[c].angles, calls[c].eigenvalues),
                    !.err = Nil]]
    /\ mu' = 0
    /\ UNCHANGED shared
    /\ UNCHANGED notConVars

\* lines 470-474: angle i is asin(phase/(2*pi*d)) with phase = 2*pi*i/K, given
\* by its sine <<num, den>>; math.Asin of a value above 1 is NaN, here <<0, 0>>
tlsSine(i, K, spacing) ==
    IF 4 * i > K * spacing THEN <<0, 0>> ELSE <<4 * i, K * spacing>>

\* lines 449-477: mat.NewCDense panics when rows-1 is not positive
tlsEspritCore(sub, K, spacing) ==
    IF Rows(sub) - 1 <= 0 THEN [val |-> <<>>, err |-> "panic"]
    ELSE [val |-> [i \in 1..K |-> tlsSine(i - 1, K, spacing)], err |-> Nil]

\* lines 428-447
tlsEstimateDOA(config, X) ==
    CHOOSE out \in
        {IF sub.err # Nil THEN [result |-> None, err |-> sub.err]
         ELSE CHOOSE r \in
                {IF core.err # Nil THEN [result |-> None, err |-> core.err]
                 ELSE [result |-> newESPRITResult(core.val, <<>>), err |-> Nil] :
                 core \in {tlsEspritCore(sub.val, config.NumSources,
                                         config.ElementSpacing)}} : TRUE :
         sub \in {extractSignalSubspace(cov, config.NumSources, TRUE, svdOrderOf(cov)) :
                    cov \in {computeCovarianceMatrix(X)}}} : TRUE

\* TLS_ESPRITEstimator.EstimateDOA on the same estimator: no lock, locals only
ConTLSCall(c) ==
    /\ calls[c].pc = "Idle"
    /\ \E X \in ConcurrentSignals(shared.config.NumAntennas) :
         \E out \in {tlsEstimateDOA(shared.config, X)} :
            calls' = [calls EXCEPT ![c] = [@ EXCEPT !.pc = "Returned", !.op = "TLS",
                                                    !.signal = X, !.result = out.result,
                                                    !.err = out.err]]
    /\ UNCHANGED <<shared, mu>>
    /\ UNCHANGED notConVars

ConInit ==
    /\ shared \in {[config |-> config, covMatrix |-> None, signalSubspace |-> <<>>,
                    covBy |-> 0, subBy |-> 0] : config \in ConcurrentConfigs}
    /\ mu = 0
    /\ calls = [c \in Callers |-> idleCall]

ConIdle ==
    /\ shared = None
    /\ mu = 0
    /\ calls = <<>>

ConNext ==
    \E c \in Callers :
        \/ ConCall(c)
        \/ ConLock(c)
        \/ ConCovariance(c)
        \/ ConSubspace(c)
        \/ ConCore(c)
        \/ ConStoreCov(c)
        \/ ConStoreSub(c)
        \/ ConReturn(c)
        \/ ConTLSCall(c)

(***************************************************************************)
(* Properties of concurrent EstimateDOA calls.                             *)
(***************************************************************************)

\* what a call alone on the estimator returns for the buffer of caller c
sequentialOutcome(c) ==
    IF calls[c].op = "TLS" THEN tlsEstimateDOA(shared.config, calls[c].signal)
    ELSE LET out == estimateDOA(shared.config, calls[c].signal, TRUE, TRUE,
                                svdOrderOf(computeCovarianceMatrix(calls[c].signal)))
         IN  [result |-> out.result, err |-> out.err]

\* C11: concurrent EstimateDOA calls on one estimator, each with its own buffer:
\* every call returns what a sequential call on its input returns, a call that
\* writes the estimator holds the mutex alone, and whenever no call is inside
\* the covariance matrix and the signal subspace held by the estimator were
\* stored by the same call and are that call's.
C11_ConcurrentCallsIsolated ==
    /\ \A c \in Callers :
         calls[c].pc = "Returned" =>
            /\ calls[c].result = sequentialOutcome(c).result
            /\ calls[c].err = sequentialOutcome(c).err
    /\ \A c, d \in Callers :
         (/\ calls[c].pc \in {"Covariance", "Subspace", "Core", "StoreCov", "StoreSub", "Return"}
          /\ calls[d].pc \in {"Covariance", "Subspace", "Core", "StoreCov", "StoreSub", "Return"})
            => c = d
    /\ mu = 0 =>
         /\ shared.covBy = shared.subBy
         /\ shared.covBy # 0 =>
              /\ shared.covMatrix = computeCovarianceMatrix(calls[shared.covBy].signal)
              /\ shared.signalSubspace = calls[shared.covBy].signalSubspace

\* C11 witness: both callers ran ESPRIT EstimateDOA on different buffers, both
\* stored, and the second waited for the mutex while the first held it
C11_Witness ==
    /\ calls[1].pc = "Returned" /\ calls[2].pc = "Returned"
    /\ calls[1].op = "ESPRIT" /\ calls[2].op = "ESPRIT"
    /\ calls[1].err = Nil /\ calls[2].err = Nil
    /\ calls[1].signal # calls[2].signal
    /\ calls[1].result # calls[2].result
    /\ shared.covBy = 1 /\ shared.subBy = 1

(***************************************************************************)
(* unnamed/part_020, lines 277-409: the Monte Carlo validation.            *)
(*                                                                         *)
(* The estimate of a noisy signal is not computed; a generated signal is   *)
(* the record of what it is computed from (angles, SNR and the noise       *)
(* draws), and a trial's RMSE is the record of the signal it is the RMSE   *)
(* of.  Two such records are equal exactly when the code computes from     *)
(* equal values.                                                           *)
(***************************************************************************)
MaxTrials == 2
MaxOtherCalls == 2

randFloat64Advancing(draw) == <<(123456789 + draw) % 1073741824, 1073741824>>

\* lines 407-409: (123456789 + int(1000*sin(0))) % 2^30 over 2^30, as <<num, den>>;
\* the value does not depend on how many draws were made before
randFloat64(draw) == <<(123456789 + 0) % 1073741824, 1073741824>>

\* lines 396-405: sqrt(-2*ln(u1))*cos(2*pi*u2), as the record of u1 and u2; the
\* loop redraws u1 while it is 0
randNorm(draw) ==
    LET u1 == IF randFloat64(draw)[1] = 0 THEN randFloat64(draw + 2) ELSE randFloat64(draw)
        u2 == randFloat64(draw + 1)
    IN  [u1 |-> u1, u2 |-> u2]

\* randFloat64 calls of one randNorm
randNormDraws(draw) == IF randFloat64(draw)[1] = 0 THEN 3 ELSE 2

\* lines 277-312: the signal of trueAngles at snrDB with 2*M*N noise draws
GenerateTestSignal(config, trueAngles, snrDB, draw) ==
    [rows |-> config.NumAntennas, angles |-> trueAngles, snr |-> snrDB,
     noise |-> [k \in 1..(2 * config.NumAntennas * config.SnapshotLength) |->
                  randNorm(draw + 2 * (k - 1))]]

GenerateTestSignalDraws(config) == 4 * config.NumAntennas * config.SnapshotLength

\* lines 68-76 of EstimateDOA for a generated signal of M rows: the error the
\* configuration leads to, if any
estimateError(config) ==
    IF signalSubspaceRows(config.NumAntennas, config.NumSources) <= 0
       \/ config.NumSources <= 0
    THEN "panic"
    ELSE IF subspaceTooSmall(signalSubspaceRows(config.NumAntennas, config.NumSources),
                             config.NumAntennas)
    THEN "esprit core computation failed"
    ELSE Nil

\* lines 314-326: +Inf when the lengths differ, else the RMSE of the estimate of
\* the signal against trueAngles
ComputeRMSEOfSignal(config, signal, trueAngles) ==
    IF config.NumSources # Len(trueAngles) THEN [inf |-> TRUE]
    ELSE [inf |-> FALSE, of |-> signal, against |-> trueAngles]

\* lines 328-339
EstimateWithPerformance(config, trueAngles, snrDB, draw) ==
    LET signal == GenerateTestSignal(config, trueAngles, snrDB, draw)
    IN  IF estimateError(config) # Nil
        THEN [err |-> estimateError(config), RMSE |-> None, signal |-> signal]
        ELSE [err |-> Nil, RMSE |-> ComputeRMSEOfSignal(config, signal, trueAngles),
              signal |-> signal]

Runs == {1, 2}

McConfigs ==
    [NumAntennas : {2}, NumSources : {1, 2},
     ElementSpacing : {DefaultElementSpacing}, SnapshotLength : {1}]

\* angles are named by small integers, SNRs are in dB
McArgs ==
    [trueAngles : {<<0>>, <<0, 1>>},
     snrRange : {<<>>, <<0>>, <<0, 10>>, <<10, 10>>},
     numTrials : 0..MaxTrials]

idleRun == [pc |-> "Idle", snr |-> 0, trial |-> 0, totalRMSE |-> <<>>, results |-> <<>>]

\* line 342, and line 344 for the first SNR
McStart(r) ==
    /\ mcRuns[r].pc = "Idle"
    /\ mcRuns' = [mcRuns EXCEPT ![r] =
                    IF mcArgs.snrRange = <<>> THEN [@ EXCEPT !.pc = "Done"]
                    ELSE [@ EXCEPT !.pc = "Trials", !.snr = 1]]
    /\ UNCHANGED <<mcEstimator, mcArgs, mcDraws, mcOther>>
    /\ UNCHANGED notMcVars

\* lines 348-358: one trial; a failed estimate is skipped, a successful one is
\* stored by EstimateDOA and its RMSE is added (and compared with 0.1)
McTrial(r) ==
    /\ mcRuns[r].pc = "Trials"
    /\ mcRuns[r].trial < mcArgs.numTrials
    /\ \E out \in {EstimateWithPerformance(mcEstimator.config, mcArgs.trueAngles,
                                           mcArgs.snrRange[mcRuns[r].snr], mcDraws)} :
         /\ mcRuns' = [mcRuns EXCEPT ![r] =
                         [@ EXCEPT !.trial = @ + 1,
                                   !.totalRMSE = IF out.err # Nil THEN @
                                                 ELSE Append(@, out.RMSE)]]
         /\ mcEstimator' = IF out.err # Nil THEN mcEstimator
                           ELSE [mcEstimator EXCEPT !.holds = out.signal]
    /\ mcDraws' = mcDraws + GenerateTestSignalDraws(mcEstimator.config)
    /\ UNCHANGED <<mcArgs, mcOther>>
    /\ UNCHANGED notMcVars

\* lines 360-366: the mean RMSE and the success rate of this SNR, as what they
\* are computed from; then line 344 for the next SNR, or line 369
McFinishSnr(r) ==
    /\ mcRuns[r].pc = "Trials"
    /\ ~(mcRuns[r].trial < mcArgs.numTrials)
    /\ LET key == mcArgs.snrRange[mcRuns[r].snr]
           entry == [RMSE |-> [sum |-> mcRuns[r].totalRMSE, over |-> mcArgs.numTrials],
                     SuccessRate |-> [below |-> mcRuns[r].totalRMSE,
                                      over |-> mcArgs.numTrials]]
           results == [k \in (DOMAIN mcRuns[r].results) \cup {key} |->
                         IF k = key THEN entry ELSE mcRuns[r].results[k]]
       IN  mcRuns' = [mcRuns EXCEPT ![r] =
                        [@ EXCEPT !.results = results, !.trial = 0, !.totalRMSE = <<>>,
                                  !.snr = @ + 1,
                                  !.pc = IF mcRuns[r].snr = Len(mcArgs.snrRange)
                                         THEN "Done" ELSE "Trials"]]
    /\ UNCHANGED <<mcEstimator, mcArgs, mcDraws, mcOther>>
    /\ UNCHANGED notMcVars

\* another caller's EstimateDOA on the estimator (lines 83-84 store its signal)
McOtherEstimateDOA ==
    /\ mcOther < MaxOtherCalls
    /\ mcOther' = mcOther + 1
    /\ mcEstimator' = IF estimateError(mcEstimator.config) # Nil THEN mcEstimator
                      ELSE [mcEstimator EXCEPT !.holds = [other |-> mcOther]]
    /\ UNCHANGED <<mcArgs, mcRuns, mcDraws>>
    /\ UNCHANGED notMcVars

\* another caller's CompareWithMUSIC (lines 372-394): one more generated
\* signal, and one randNorm per angle
McOtherCompareWithMUSIC ==
    /\ mcOther < MaxOtherCalls
    /\ mcOther' = mcOther + 1
    /\ \E angles \in {a.trueAngles : a \in McArgs} :
         \E out \in {EstimateWithPerformance(mcEstimator.config, angles, 0, mcDraws)} :
            /\ mcEstimator' = IF out.err # Nil THEN mcEstimator
                              ELSE [mcEstimator EXCEPT !.holds = out.signal]
            /\ mcDraws' = mcDraws + GenerateTestSignalDraws(mcEstimator.config)
                          + (IF out.err # Nil THEN 0 ELSE 2 * Len(angles))
    /\ UNCHANGED <<mcArgs, mcRuns>>
    /\ UNCHANGED notMcVars

McInit ==
    /\ mcEstimator \in {[config |-> config, holds |-> None] : config \in McConfigs}
    /\ mcArgs \in McArgs
    /\ mcRuns = [r \in Runs |-> idleRun]
    /\ mcDraws = 0
    /\ mcOther = 0

McIdle ==
    /\ mcEstimator = None
    /\ mcArgs = None
    /\ mcRuns = <<>>
    /\ mcDraws = 0
    /\ mcOther = 0

McNext ==
    \/ \E r \in Runs : McStart(r) \/ McTrial(r) \/ McFinishSnr(r)
    \/ McOtherEstimateDOA
    \/ McOtherCompareWithMUSIC

(***************************************************************************)
(* Properties of the Monte Carlo validation.                               *)
(***************************************************************************)

\* C12: two MonteCarloSimulation runs with the same trueAngles, snrRange and
\* numTrials return the same mean RMSE and success rate for every SNR, whatever
\* other calls ran before, between or during them.
C12_MonteCarloReproducible ==
    (mcRuns[1].pc = "Done" /\ mcRuns[2].pc = "Done") =>
        /\ DOMAIN mcRuns[1].results = {mcArgs.snrRange[i] : i \in 1..Len(mcArgs.snrRange)}
        /\ mcRuns[1].results = mcRuns[2].results

\* C12 witness: both runs finished two SNRs of two successful trials each, with
\* other calls made on the estimator
C12_Witness ==
    /\ mcRuns[1].pc = "Done" /\ mcRuns[2].pc = "Done"
    /\ mcOther >= 2
    /\ mcArgs.numTrials >= 2
    /\ mcArgs.snrRange = <<0, 10>>
    /\ Len(mcRuns[1].results[0].RMSE.sum) = 2
    /\ Len(mcRuns[2].results[10].RMSE.sum) = 2
    /\ mcRuns[1].results[0] # mcRuns[1].results[10]

(***************************************************************************)
(* Pure functions called on their own: ESPRITEstimator.ComputeRMSE and     *)
(* WeightsCalculator.ApplyPhaseQuantization.  A call takes its arguments   *)
(* from a bounded set and records what it returned.                        *)
(***************************************************************************)

\* the longest angle slice, and the largest angle (in whole units; their
\* differences and squares are exact in float64)
MaxAngleCount == 2
MaxAngleValue == 2

AngleSlices == UNION {[1..n -> 0..MaxAngleValue] : n \in 0..MaxAngleCount}

\* the slice s read in the order p
permuted(s, p) == [i \in 1..Len(s) |-> s[p[i]]]

\* lines 319-323: the sum over i of (estimatedAngles[i] - trueAngles[i])^2
RECURSIVE sumSquaredError(_, _, _)
sumSquaredError(estimatedAngles, trueAngles, i) ==
    IF i > Len(estimatedAngles) THEN 0
    ELSE (estimatedAngles[i] - trueAngles[i]) * (estimatedAngles[i] - trueAngles[i])
         + sumSquaredError(estimatedAngles, trueAngles, i + 1)

\* A float64 result: +Inf, or the square root of the fraction radicand in
\* lowest terms; the fraction 0/0 is NaN.
rmseInf == [inf |-> TRUE, radicand |-> <<0, 0>>]
rmseOf(sum, n) ==
    [inf |-> FALSE,
     radicand |-> IF n = 0 THEN <<0, 0>>
                  ELSE <<sum \div Gcd(sum, n), n \div Gcd(sum, n)>>]
rmseZero == rmseOf(0, 1)

\* lines 314-326: the elements are paired by position, as the caller gave them
ComputeRMSE(estimatedAngles, trueAngles) ==
    IF Len(estimatedAngles) # Len(trueAngles) THEN rmseInf
    ELSE rmseOf(sumSquaredError(estimatedAngles, trueAngles, 1), Len(estimatedAngles))

ComputeRMSECall ==
    /\ fnPc = "Ready"
    /\ \E estimatedAngles \in AngleSlices, trueAngles \in AngleSlices :
          /\ fnCall' = [op |-> "ComputeRMSE", estimatedAngles |-> estimatedAngles,
                        trueAngles |-> trueAngles]
          /\ fnOut' = ComputeRMSE(estimatedAngles, trueAngles)
    /\ fnPc' = "Returned"
    /\ UNCHANGED notFnVars

FnInit ==
    /\ fnPc = "Ready"
    /\ fnCall = None
    /\ fnOut = None

FnIdle ==
    /\ fnPc = "Idle"
    /\ fnCall = None
    /\ fnOut = None

RmseNext == ComputeRMSECall

\* C13: ComputeRMSE(estimated, true) is the same for every reordering of
\* either argument, and ComputeRMSE(x, x) = 0 for every angle slice x.
C13_RMSEOrderInsensitive ==
    (fnPc = "Returned" /\ fnCall.op = "ComputeRMSE") =>
        /\ \A p \in Perms(Len(fnCall.estimatedAngles)), q \in Perms(Len(fnCall.trueAngles)) :
              ComputeRMSE(permuted(fnCall.estimatedAngles, p),
                          permuted(fnCall.trueAngles, q)) = fnOut
        /\ fnCall.estimatedAngles = fnCall.trueAngles => fnOut = rmseZero

\* the largest bit depth below the float64 range limit that is called with,
\* and the longest phase slice
MaxBits == 3
MaxPhases == 2

\* line 128: math.Pow(2, float64(bits)) is +Inf from this bit depth on
powOverflowBits == 1024

\* line 128: levels = 2^bits
RECURSIVE levelCount(_)
levelCount(bits) == IF bits = 0 THEN 1 ELSE 2 * levelCount(bits - 1)

\* Phases are exact fractions of a full turn: 2*pi is turnUnits units, fine
\* enough for a phase halfway between two levels of the deepest quantizer.
turnUnits == 2 * levelCount(MaxBits)

PhaseValues == 0..(turnUnits - 1)
PhaseSlices == UNION {[1..n -> PhaseValues] : n \in 0..MaxPhases}
BitDepths == (0..MaxBits) \cup {powOverflowBits}

\* a float64 phase: a number of units, or NaN
phaseOf(units) == [nan |-> FALSE, units |-> units]
phaseNaN == [nan |-> TRUE, units |-> 0]

\* line 132: math.Round(phase / step), halves away from zero (phase >= 0)
roundedBelow(phase, step) == phase \div step
roundedLevel(phase, step) == (2 * phase + step) \div (2 * step)

\* lines 132-133 for one phase: with levels = +Inf the step is 0, phase / step
\* is +Inf or NaN, and level * step is NaN
quantizeOne(phase, bits) ==
    IF bits >= powOverflowBits THEN phaseNaN
    ELSE LET step == turnUnits \div levelCount(bits)
         IN  phaseOf((roundedLevel(phase, step) * step) % turnUnits)

\* lines 127-136
ApplyPhaseQuantization(phases, bits) ==
    [i \in 1..Len(phases) |-> quantizeOne(phases[i], bits)]

ApplyPhaseQuantizationCall ==
    /\ fnPc = "Ready"
    /\ \E phases \in PhaseSlices, bits \in BitDepths :
          /\ fnCall' = [op |-> "ApplyPhaseQuantization", phases |-> phases, bits |-> bits]
          /\ fnOut' = ApplyPhaseQuantization(phases, bits)
    /\ fnPc' = "Returned"
    /\ UNCHANGED notFnVars

QuantNext == ApplyPhaseQuantizationCall

\* distance between two phases around the circle
circularDistance(x, y) ==
    IF AbsInt(x - y) <= turnUnits - AbsInt(x - y) THEN AbsInt(x - y)
    ELSE turnUnits - AbsInt(x - y)

\* the levels k * 2*pi / 2^bits, 0 <= k < 2^bits
levelsOf(bits) == {k * (turnUnits \div levelCount(bits)) : k \in 0..(levelCount(bits) - 1)}

\* one output per input, each a level and none of the levels nearer to its input
quantizedToNearest(phases, bits, out) ==
    /\ Len(out) = Len(phases)
    /\ \A i \in 1..Len(phases) :
          /\ ~out[i].nan
          /\ out[i].units \in levelsOf(bits)
          /\ \A l \in levelsOf(bits) :
                circularDistance(out[i].units, phases[i]) <= circularDistance(l, phases[i])
    /\ bits = 0 => \A i, j \in 1..Len(out) : out[i] = out[j]

QuantReturned == fnPc = "Returned" /\ fnCall.op = "ApplyPhaseQuantization"

MaxTargets == 2

scaledWeights(w, divisorSq) == [weights |-> w, divisorSq |-> divisorSq]

\* |x|^2 of an exact complex rational
QAbsSq(x) == QMul(x, QConj(x))

\* lines 68-77: sum is the sum of |weight|^2, and every weight is divided by
\* its square root
normalize(w) ==
    scaledWeights(w, SumSeq([i \in 1..Len(w) |-> CAbsSq(w[i].n)]))

\* lines 20-28, for an element spacing of half a wavelength and the target
\* direction angle = 2 sin(targetAngle): weights[n] = exp(-j n angle pi/2)
ComputeConjugateBeamforming(elementCount, angle) ==
    normalize([n \in 1..elementCount |-> QOf(CConj(JPow((n - 1) * angle)))])

\* lines 30-41: weights[n] is the conjugate of the sum over the target angles
\* of exp(j n angle pi/2)
ComputeZOFBeamforming(elementCount, angles) ==
    normalize([n \in 1..elementCount |->
        QOf(CConj(CSum([k \in 1..Len(angles) |-> JPow((n - 1) * angles[k])])))])

\* lines 43-66: the quotient is returned as it is
mvdrWeightsReturned(covMatrix, steeringVector) ==
    scaledWeights(ComputeMVDRWeights(covMatrix, steeringVector), 1)

TargetLists == UNION {[1..n -> Directions] : n \in 0..MaxTargets}

ComputeConjugateBeamformingCall ==
    /\ fnPc = "Ready"
    /\ \E elementCount \in 1..MaxMatrixDim, angle \in Directions :
          /\ fnCall' = [op |-> "ComputeConjugateBeamforming",
                        elementCount |-> elementCount, angles |-> <<angle>>]
          /\ fnOut' = ComputeConjugateBeamforming(elementCount, angle)
    /\ fnPc' = "Returned"
    /\ UNCHANGED notFnVars

ComputeZOFBeamformingCall ==
    /\ fnPc = "Ready"
    /\ \E elementCount \in 1..MaxMatrixDim, angles \in TargetLists :
          /\ fnCall' = [op |-> "ComputeZOFBeamforming",
                        elementCount |-> elementCount, angles |-> angles]
          /\ fnOut' = ComputeZOFBeamforming(elementCount, angles)
    /\ fnPc' = "Returned"
    /\ UNCHANGED notFnVars

\* the caller passes a covariance matrix and a steering vector of the
\* calculator's element count
ComputeMVDRWeightsCall ==
    /\ fnPc = "Ready"
    /\ \E cov \in CovInputs :
         \E a \in SteeringInputs(Len(cov)) :
            /\ fnCall' = [op |-> "ComputeMVDRWeights", elementCount |-> Len(cov),
                          covMatrix |-> cov, steeringVector |-> a]
            /\ fnOut' = mvdrWeightsReturned(cov, a)
    /\ fnPc' = "Returned"
    /\ UNCHANGED notFnVars

ClosedFormNext ==
    \/ ComputeConjugateBeamformingCall
    \/ ComputeZOFBeamformingCall
    \/ ComputeMVDRWeightsCall

\* the squared magnitudes of the returned elements sum to 1
unitNorm(out) ==
    /\ out.divisorSq # 0
    /\ \A i \in 1..Len(out.weights) : IsFinite(out.weights[i])
    /\ QSum([i \in 1..Len(out.weights) |-> QAbsSq(out.weights[i])])
          = QOf(<<out.divisorSq, 0>>)

\* C15: ComputeConjugateBeamforming, ComputeZOFBeamforming and
\* ComputeMVDRWeights each return exactly M elements whose squared magnitudes
\* sum to 1.
C15_ClosedFormWeightsUnitNorm ==
    (fnPc = "Returned" /\ fnCall.op \in {"ComputeConjugateBeamforming",
                                         "ComputeZOFBeamforming",
                                         "ComputeMVDRWeights"}) =>
        /\ Len(fnOut.weights) = fnCall.elementCount
        /\ unitNorm(fnOut)

(***************************************************************************)
(* package queue: TaskQueue (pkg/queue/task.go).  Callers run Submit       *)
(* concurrently with the worker goroutines; each section of code that      *)
(* holds q.mu is one step.  generateID is taken to return an ID no earlier *)
(* task has; handlers return.  The taskQueue record also holds the state   *)
(* of ctx (ctxDone) and of ch (closed), the position of the Stop call      *)
(* (stop) and the IDs Submit had returned when Stop was called (before).   *)
(***************************************************************************)

\* how many tasks are submitted
MaxTasks == 2

\* the worker counts and channel capacities the queue is built with
QueueWorkerCounts == {1, 2}
BufferSizes == {0, 1}

StatusPending == "pending"
StatusRunning == "running"
StatusCompleted == "completed"
StatusFailed == "failed"

Submitters == {1}
TaskTypes == {"compute", "broken", "unknown"}
\* "unknown" is the type no handler is ever registered for
HandledTypes == {"compute", "broken"}
Payloads == {21}

\* what the handler registered for a type returns: (result, err)
handlerReturn(taskType, payload) ==
    IF taskType = "compute" THEN [result |-> [value |-> 2 * payload], err |-> Nil]
    ELSE [result |-> None, err |-> "handler failed"]

NewTaskQueue(workers, bufferSize) ==
    [workers |-> workers, bufferSize |-> bufferSize, started |-> FALSE,
     ctxDone |-> FALSE, closed |-> FALSE, stop |-> "NotCalled", before |-> {}]

\* lines 65-71
newTask(taskType, payload) ==
    [Type |-> taskType, Payload |-> payload, Status |-> StatusPending,
     Result |-> None, Error |-> ""]

\* line 66: an ID that no task has yet
generateID == Cardinality(DOMAIN qTasks) + 1

idleSubmitter == [pc |-> "Idle", id |-> 0, returned |-> {}]

\* lines 58-62
RegisterHandler(taskType) ==
    /\ taskType \notin qHandlers
    /\ qHandlers' = qHandlers \cup {taskType}
    /\ UNCHANGED <<taskQueue, qTasks, qCh, qSubmit, qWorkers>>
    /\ UNCHANGED notTqVars

\* lines 64-75: the task is built and stored in the map under its ID
SubmitStore(c) ==
    /\ qSubmit[c].pc = "Idle"
    /\ Cardinality(DOMAIN qTasks) < MaxTasks
    /\ \E taskType \in TaskTypes, payload \in Payloads :
          /\ qTasks' = [id \in DOMAIN qTasks \cup {generateID} |->
                          IF id = generateID
                          THEN [task |-> newTask(taskType, payload),
                                handlerAtSubmit |-> taskType \in qHandlers]
                          ELSE qTasks[id]]
          /\ qSubmit' = [qSubmit EXCEPT ![c].pc = "Send", ![c].id = generateID]
    /\ UNCHANGED <<taskQueue, qHandlers, qCh, qWorkers>>
    /\ UNCHANGED notTqVars

\* lines 77-78: the send completes when the buffer has room
SubmitSend(c) ==
    /\ qSubmit[c].pc = "Send"
    /\ Len(qCh) < taskQueue.bufferSize
    /\ qCh' = Append(qCh, qSubmit[c].id)
    /\ qSubmit' = [qSubmit EXCEPT ![c].pc = "Idle", ![c].id = 0,
                                  ![c].returned = @ \cup {qSubmit[c].id}]
    /\ UNCHANGED <<taskQueue, qHandlers, qTasks, qWorkers>>
    /\ UNCHANGED notTqVars

\* lines 81-86
QueueStart ==
    /\ ~taskQueue.started
    /\ taskQueue' = [taskQueue EXCEPT !.started = TRUE]
    /\ qWorkers' = [w \in 1..taskQueue.workers |-> [pc |-> "Select", task |-> 0]]
    /\ UNCHANGED <<qHandlers, qTasks, qCh, qSubmit>>
    /\ UNCHANGED notTqVars

\* line 94: a worker receives the oldest buffered task
WorkerReceive(w) ==
    /\ qWorkers[w].pc = "Select"
    /\ qCh # <<>>
    /\ qWorkers' = [qWorkers EXCEPT ![w] = [pc |-> "Running", task |-> Head(qCh)]]
    /\ qCh' = Tail(qCh)
    /\ UNCHANGED <<taskQueue, qHandlers, qTasks, qSubmit>>
    /\ UNCHANGED notTqVars

\* lines 77 and 94: with an empty buffer a worker receives directly from a
\* caller blocked in the send
WorkerReceiveFromSender(w, c) ==
    /\ qWorkers[w].pc = "Select"
    /\ qCh = <<>>
    /\ qSubmit[c].pc = "Send"
    /\ qWorkers' = [qWorkers EXCEPT ![w] = [pc |-> "Running", task |-> qSubmit[c].id]]
    /\ qSubmit' = [qSubmit EXCEPT ![c].pc = "Idle", ![c].id = 0,
                                  ![c].returned = @ \cup {qSubmit[c].id}]
    /\ UNCHANGED <<taskQueue, qHandlers, qTasks, qCh>>
    /\ UNCHANGED notTqVars

\* lines 104-108
ProcessMarkRunning(w) ==
    /\ qWorkers[w].pc = "Running"
    /\ qTasks' = [qTasks EXCEPT ![qWorkers[w].task].task.Status = StatusRunning]
    /\ qWorkers' = [qWorkers EXCEPT ![w].pc = "Lookup"]
    /\ UNCHANGED <<taskQueue, qHandlers, qCh, qSubmit>>
    /\ UNCHANGED notTqVars

\* line 116, changed: the task is left running
statusHandlerNotFoundLeftRunning == StatusRunning

\* line 116
statusHandlerNotFound == StatusFailed

\* lines 110-122
ProcessLookup(w) ==
    /\ qWorkers[w].pc = "Lookup"
    /\ IF qTasks[qWorkers[w].task].task.Type \in qHandlers
       THEN /\ qWorkers' = [qWorkers EXCEPT ![w].pc = "Call"]
            /\ UNCHANGED qTasks
       ELSE /\ qTasks' = [qTasks EXCEPT
                            ![qWorkers[w].task].task.Status = statusHandlerNotFound,
                            ![qWorkers[w].task].task.Error = "handler not found"]
            /\ qWorkers' = [qWorkers EXCEPT ![w] = [pc |-> "Select", task |-> 0]]
    /\ UNCHANGED <<taskQueue, qHandlers, qCh, qSubmit>>
    /\ UNCHANGED notTqVars

\* lines 124-138
ProcessHandler(w) ==
    /\ qWorkers[w].pc = "Call"
    /\ LET t == qTasks[qWorkers[w].task].task
           r == handlerReturn(t.Type, t.Payload)
       IN  qTasks' = [qTasks EXCEPT ![qWorkers[w].task].task =
                        IF r.err # Nil
                        THEN [t EXCEPT !.Status = StatusFailed, !.Error = r.err]
                        ELSE [t EXCEPT !.Status = StatusCompleted, !.Result = r.result]]
    /\ qWorkers' = [qWorkers EXCEPT ![w] = [pc |-> "Select", task |-> 0]]
    /\ UNCHANGED <<taskQueue, qHandlers, qCh, qSubmit>>
    /\ UNCHANGED notTqVars

\* lines 141-146
GetTask(id) ==
    IF id \in DOMAIN qTasks THEN [task |-> qTasks[id].task, exists |-> TRUE]
    ELSE [task |-> None, exists |-> FALSE]

TqInit ==
    /\ taskQueue \in {NewTaskQueue(workers, bufferSize) :
                        workers \in QueueWorkerCounts, bufferSize \in BufferSizes}
    /\ qHandlers = {}
    /\ qTasks = <<>>
    /\ qCh = <<>>
    /\ qSubmit = [c \in Submitters |-> idleSubmitter]
    /\ qWorkers = <<>>

TqIdle ==
    /\ taskQueue = None
    /\ qHandlers = {}
    /\ qTasks = <<>>
    /\ qCh = <<>>
    /\ qSubmit = <<>>
    /\ qWorkers = <<>>

WorkerStep(w) ==
    \/ WorkerReceive(w)
    \/ \E c \in Submitters : WorkerReceiveFromSender(w, c)
    \/ ProcessMarkRunning(w)
    \/ ProcessLookup(w)
    \/ ProcessHandler(w)

TqNext ==
    \/ \E taskType \in HandledTypes : RegisterHandler(taskType)
    \/ \E c \in Submitters : SubmitStore(c)
    \/ \E c \in Submitters : SubmitSend(c)
    \/ QueueStart
    \/ \E w \in DOMAIN qWorkers : WorkerReceive(w)
    \/ \E w \in DOMAIN qWorkers : \E c \in Submitters : WorkerReceiveFromSender(w, c)
    \/ \E w \in DOMAIN qWorkers : ProcessMarkRunning(w)
    \/ \E w \in DOMAIN qWorkers : ProcessLookup(w)
    \/ \E w \in DOMAIN qWorkers : ProcessHandler(w)

\* a worker goroutine that can take a step is scheduled eventually
TqFairness == \A w \in UNION {1..n : n \in QueueWorkerCounts} :
    WF_tqVars(w \in DOMAIN qWorkers /\ WorkerStep(w))

(***************************************************************************)
(* Properties of the task queue.                                           *)
(***************************************************************************)

submittedIds == UNION {qSubmit[c].returned : c \in DOMAIN qSubmit}

terminal(id) == id \in DOMAIN qTasks /\ qTasks[id].task.Status \in {StatusCompleted, StatusFailed}

\* the outcome the claim describes for a task that reached a terminal status
outcomeAsHandled(id) ==
    LET t == qTasks[id].task
        r == handlerReturn(t.Type, t.Payload)
    IN  /\ t.Status = StatusCompleted =>
              /\ t.Type \in qHandlers /\ r.err = Nil
              /\ t.Result = r.result
        /\ t.Status = StatusFailed => t.Error # ""
        /\ (qTasks[id].handlerAtSubmit /\ r.err = Nil) => t.Status = StatusCompleted
        /\ t.Type \notin HandledTypes =>
              t.Status = StatusFailed /\ t.Error = "handler not found"

\* C16: every task whose ID Submit returned is found by GetTask under that ID;
\* once the queue is started it reaches Completed (with the handler's return
\* value as Result) or Failed (with an error message, also when no handler is
\* registered for its type), and a task in such a status no longer changes.
C16_SubmittedTasksFinish ==
    /\ [](\A id \in submittedIds :
            /\ GetTask(id).exists
            /\ terminal(id) => outcomeAsHandled(id))
    /\ [][\A id \in DOMAIN qTasks : terminal(id) => qTasks'[id] = qTasks[id]]_tqVars
    /\ \A id \in 1..MaxTasks :
          (id \in submittedIds /\ taskQueue.started) ~> terminal(id)

\* C16 witness: every submitted task has finished, one completed with its
\* handler's result and one failed for want of a handler
C16_Witness ==
    /\ submittedIds = 1..MaxTasks
    /\ \E a, b \in submittedIds :
          /\ qTasks[a].task.Status = StatusCompleted
          /\ qTasks[a].task.Result = [value |-> 2 * qTasks[a].task.Payload]
          /\ qTasks[b].task.Status = StatusFailed /\ qTasks[b].task.Error = "handler not found"

(***************************************************************************)
(* package pool: WorkerPool (pkg/pool/worker.go).  Task t is the argument  *)
(* of the t-th Submit call.  A worker goroutine is at Select (about to     *)
(* run the select of line 45), Parked (waiting in it for a task), Exec     *)
(* (line 52), Send (line 53, the send on results) or Exited.  The pool      *)
(* record also holds the state of ctx (ctxDone) and of taskQueue (closed), *)
(* the position of the Stop call (stop) and the task whose result a        *)
(* SubmitAndWait call is waiting for (waiting, 0 for none).                *)
(***************************************************************************)

\* how many times Submit is called
MaxPoolTasks == 3

\* the worker counts and queue sizes the pool is built with
PoolWorkerCounts == {1, 2}
PoolQueueSizes == {0, 1, 2}

\* lines 24-33: both channels get the capacity queueSize
NewWorkerPool(workers, queueSize) ==
    [workers |-> workers, queueSize |-> queueSize, started |-> FALSE,
     ctxDone |-> FALSE, closed |-> FALSE, stop |-> "NotCalled", waiting |-> 0]

\* line 60, changed: a full buffer takes one more task
bufferHasRoomOffByOne(buffer, capacity) == Len(buffer) <= capacity

\* a send on a buffered channel goes through when the buffer is not full
bufferHasRoom(buffer, capacity) == Len(buffer) < capacity

parkedWorkers == {w \in DOMAIN pWorkers : pWorkers[w].pc = "Parked"}

\* lines 35-40
PoolStart ==
    /\ ~pool.started
    /\ pool' = [pool EXCEPT !.started = TRUE]
    /\ pWorkers' = [w \in 1..pool.workers |-> [pc |-> "Select", task |-> 0]]
    /\ UNCHANGED <<pTaskQueue, pResults, pSubmitted, pExecuted>>
    /\ UNCHANGED notPoolVars

\* lines 58-65: the select sends to a worker waiting in its receive, or into
\* the buffer when there is room, and takes the default case otherwise
PoolSubmit ==
    /\ Len(pSubmitted) < MaxPoolTasks
    /\ LET task == Len(pSubmitted) + 1
       IN  IF parkedWorkers # {}
           THEN /\ \E w \in parkedWorkers :
                      pWorkers' = [pWorkers EXCEPT ![w] = [pc |-> "Exec", task |-> task]]
                /\ pSubmitted' = Append(pSubmitted, TRUE)
                /\ UNCHANGED pTaskQueue
           ELSE IF bufferHasRoom(pTaskQueue, pool.queueSize)
           THEN /\ pTaskQueue' = Append(pTaskQueue, task)
                /\ pSubmitted' = Append(pSubmitted, TRUE)
                /\ UNCHANGED pWorkers
           ELSE /\ pSubmitted' = Append(pSubmitted, FALSE)
                /\ UNCHANGED <<pTaskQueue, pWorkers>>
    /\ pExecuted' = Append(pExecuted, 0)
    /\ UNCHANGED <<pool, pResults>>
    /\ UNCHANGED notPoolVars

\* lines 45-48: the worker takes the oldest buffered task
PoolWorkerReceive(w) ==
    /\ pWorkers[w].pc = "Select"
    /\ pTaskQueue # <<>>
    /\ pWorkers' = [pWorkers EXCEPT ![w] = [pc |-> "Exec", task |-> Head(pTaskQueue)]]
    /\ pTaskQueue' = Tail(pTaskQueue)
    /\ UNCHANGED <<pool, pResults, pSubmitted, pExecuted>>
    /\ UNCHANGED notPoolVars

\* lines 45-48: with nothing buffered the worker waits in the select
PoolWorkerPark(w) ==
    /\ pWorkers[w].pc = "Select"
    /\ pTaskQueue = <<>>
    /\ pWorkers' = [pWorkers EXCEPT ![w].pc = "Parked"]
    /\ UNCHANGED <<pool, pTaskQueue, pResults, pSubmitted, pExecuted>>
    /\ UNCHANGED notPoolVars

\* line 52
PoolWorkerExecute(w) ==
    /\ pWorkers[w].pc = "Exec"
    /\ pExecuted' = [pExecuted EXCEPT ![pWorkers[w].task] = @ + 1]
    /\ pWorkers' = [pWorkers EXCEPT ![w].pc = "Send"]
    /\ UNCHANGED <<pool, pTaskQueue, pResults, pSubmitted>>
    /\ UNCHANGED notPoolVars

\* line 53: the send on results waits for room in its buffer
PoolWorkerSendResult(w) ==
    /\ pWorkers[w].pc = "Send"
    /\ bufferHasRoom(pResults, pool.queueSize)
    /\ pResults' = Append(pResults, pWorkers[w].task)
    /\ pWorkers' = [pWorkers EXCEPT ![w] = [pc |-> "Select", task |-> 0]]
    /\ UNCHANGED <<pool, pTaskQueue, pSubmitted, pExecuted>>
    /\ UNCHANGED notPoolVars

\* lines 78-80: a consumer, if there is one, receives from Results()
PoolReadResult ==
    /\ pResults # <<>>
    /\ pResults' = Tail(pResults)
    /\ UNCHANGED <<pool, pTaskQueue, pWorkers, pSubmitted, pExecuted>>
    /\ UNCHANGED notPoolVars

\* lines 53 and 78-80: a consumer waiting in its receive takes the Result
\* straight from a worker
PoolHandResult(w) ==
    /\ pWorkers[w].pc = "Send"
    /\ pResults = <<>>
    /\ pWorkers' = [pWorkers EXCEPT ![w] = [pc |-> "Select", task |-> 0]]
    /\ UNCHANGED <<pool, pTaskQueue, pResults, pSubmitted, pExecuted>>
    /\ UNCHANGED notPoolVars

PoolInit ==
    /\ pool \in {NewWorkerPool(workers, queueSize) :
                    workers \in PoolWorkerCounts, queueSize \in PoolQueueSizes}
    /\ pTaskQueue = <<>>
    /\ pResults = <<>>
    /\ pWorkers = <<>>
    /\ pSubmitted = <<>>
    /\ pExecuted = <<>>

PoolIdle ==
    /\ pool = None
    /\ pTaskQueue = <<>>
    /\ pResults = <<>>
    /\ pWorkers = <<>>
    /\ pSubmitted = <<>>
    /\ pExecuted = <<>>

PoolWorkerStep(w) ==
    \/ PoolWorkerReceive(w)
    \/ PoolWorkerPark(w)
    \/ PoolWorkerExecute(w)
    \/ PoolWorkerSendResult(w)

PoolNext ==
    \/ PoolStart
    \/ PoolSubmit
    \/ \E w \in DOMAIN pWorkers : PoolWorkerReceive(w)
    \/ \E w \in DOMAIN pWorkers : PoolWorkerPark(w)
    \/ \E w \in DOMAIN pWorkers : PoolWorkerExecute(w)
    \/ \E w \in DOMAIN pWorkers : PoolWorkerSendResult(w)
    \/ PoolReadResult
    \/ \E w \in DOMAIN pWorkers : PoolHandResult(w)

\* a worker goroutine that can take a step is scheduled eventually; nothing
\* obliges a consumer to read Results()
PoolFairness ==
    \A w \in UNION {1..n : n \in PoolWorkerCounts} :
        WF_poolVars(w \in DOMAIN pWorkers /\ PoolWorkerStep(w))

(***************************************************************************)
(* Properties of the worker pool.                                          *)
(***************************************************************************)

accepted(t) == t \in DOMAIN pSubmitted /\ pSubmitted[t]
executedOnce(t) == t \in DOMAIN pExecuted /\ pExecuted[t] = 1

\* C17: every task for which Submit returned true is run by a worker at some
\* time once the pool is started, and no task is run twice, whether or not
\* anything reads the Results channel.
C17_AcceptedTasksExecutedOnce ==
    /\ [](\A t \in DOMAIN pExecuted : pExecuted[t] <= 1)
    /\ \A t \in 1..MaxPoolTasks :
          (accepted(t) /\ pool.started) ~> executedOnce(t)

\* the step is a Submit call: task t was offered and Submit returned r
submitReturned(t, r) ==
    /\ Len(pSubmitted') = Len(pSubmitted) + 1
    /\ t = Len(pSubmitted')
    /\ r = pSubmitted'[t]

\* after the step task t is in the channel or with the worker that received it
placedAfter(t) ==
    \/ \E i \in 1..Len(pTaskQueue') : pTaskQueue'[i] = t
    \/ \E w \in DOMAIN pWorkers' : pWorkers'[w].task = t

queueFull == Len(pTaskQueue) = pool.queueSize

responseNotLower(before, after, targetAngle) ==
    /\ NormSq(before) > 0
    /\ NormSq(after) > 0
    /\ FracGE(CAbsSq(targetResponse(after, targetAngle)), NormSq(after),
              CAbsSq(targetResponse(before, targetAngle)), NormSq(before))

\* C19: within one Optimize call the magnitude of the response toward the
\* target direction after an iteration is never lower than after the
\* iteration before it.
C19_ResponseNonDecreasing ==
    \A k \in 1..(Len(optTrace) - 1) :
        responseNotLower(optTrace[k], optTrace[k + 1], params.TargetDirection)

(***************************************************************************)
(* The order of the peaks findPeaks returns.                               *)
(***************************************************************************)

\* grid index i (from 0) holds a strict local maximum of the spectrum
isStrictMaximum(spectrum, i) ==
    /\ i + 1 \in 2..(Len(spectrum) - 1)
    /\ spectrum[i + 1] > spectrum[i]
    /\ spectrum[i + 1] > spectrum[i + 2]

\* peak a comes before peak b: the higher value, and of equal values the
\* lower grid index
ranksBefore(spectrum, a, b) ==
    \/ spectrum[a + 1] > spectrum[b + 1]
    \/ spectrum[a + 1] = spectrum[b + 1] /\ a < b

\* C20: findPeaks returns strict local maxima of the spectrum, by descending
\* value and among equal values by ascending grid index, and only the first
\* K of that order: a peak left out ranks after every peak returned.
C20_PeaksByValueThenIndex ==
    (MusReturned /\ musErr = Nil /\ musCall.op = "findPeaks") =>
        /\ \A k \in 1..Len(musAngles) : isStrictMaximum(musSpectrum, musAngles[k])
        /\ \A k \in 1..(Len(musAngles) - 1) :
              ranksBefore(musSpectrum, musAngles[k], musAngles[k + 1])
        /\ \A i \in 0..(Len(musSpectrum) - 1) :
              (isStrictMaximum(musSpectrum, i) /\ \A k \in 1..Len(musAngles) : musAngles[k] # i) =>
                  /\ Len(musAngles) = musCall.numSources
                  /\ \A k \in 1..Len(musAngles) : ranksBefore(musSpectrum, musAngles[k], i)

(***************************************************************************)
(* The run parameters of Optimize: iteration limit, start weights, step.   *)
(***************************************************************************)

\* C21: the number of iterations Optimize reports never exceeds the
\* MaxIterations of the params it was called with, whatever maxIterations the
\* optimizer was constructed with.
C21_IterationsWithinParamsLimit ==
    optPc = "Done" => optResult.Iterations <= params.MaxIterations

\* the state in which Optimize is about to run its first iteration
beforeFirstIteration == optPc = "Iterating" /\ iterations = 0

\* the normalized conjugate of the steering vector toward targetAngle
conjugateStart(elementCount, targetAngle) ==
    normalizeWeights([n \in 1..elementCount |->
        CConj(computeSteeringVector(elementCount, targetAngle)[n])])

\* C22: the weights Optimize starts iterating from are the normalized
\* conjugate of the steering vector for params.TargetDirection (so calls whose
\* target steering vectors differ start from different weights).
C22_StartsFromConjugateOfTarget ==
    beforeFirstIteration =>
        weights = conjugateStart(params.ElementCount, params.TargetDirection)

\* line 58: the base step, 0.1 = 1 / baseStepDen
baseStepDen == 10

\* the weights a pass makes of w with the step 1 / den (lines 59-63)
updatedWith(w, targetSteering, den) ==
    normalizeWeights([n \in 1..Len(w) |->
        CAdd(CScale(den, w[n]), gradientOf(w, targetSteering)[n])])

\* the weights before pass k of the call (k = iter + 1)
weightsBeforePass(k) ==
    IF k = 1 THEN initializeWeights(params.ElementCount) ELSE optTrace[k - 1]

\* C23: the update of loop iteration iter (from 0) uses the base step divided
\* by iter + 1: the full base step in the first pass, half of it in the
\* second, one n-th of it in the n-th.
C23_StepIsBaseOverPass ==
    \A k \in 1..Len(optTrace) :
        optTrace[k] = updatedWith(weightsBeforePass(k),
                          computeSteeringVector(params.ElementCount, params.TargetDirection),
                          baseStepDen * k)

(***************************************************************************)
(* Optimizer.analyzeBeamPattern (optimizer.go, lines 162-201) on a beam    *)
(* pattern of whole-number magnitudes.  Indices count from 0 as in the     *)
(* code: grid point i is pattern[i + 1].                                   *)
(***************************************************************************)

\* the longest pattern and the largest magnitude
MaxPatternLen == 4
MaxPatternLevel == 3

BeamPatterns == UNION {[1..n -> 0..MaxPatternLevel] : n \in 1..MaxPatternLen}

\* the largest member of a non-empty set of numbers, 0 for the empty set
maxOf(S) == IF S = {} THEN 0 ELSE CHOOSE x \in S : \A y \in S : y <= x

\* lines 163-170: the first index holding the largest value
peakIndex(pattern) ==
    CHOOSE i \in 0..(Len(pattern) - 1) :
        /\ pattern[i + 1] = maxOf({pattern[k] : k \in 1..Len(pattern)})
        /\ \A k \in 0..(i - 1) : pattern[k + 1] < pattern[i + 1]

\* lines 174, 178 and 184: v < maxVal / sqrt(2), for magnitudes v, maxVal >= 0
belowHalfPower(v, maxVal) == 2 * v * v < maxVal * maxVal

\* lines 177-182: the nearest index at or left of maxIdx below half power, and
\* maxIdx when there is none
leftIndex(pattern, maxIdx) ==
    LET below == {i \in 0..maxIdx : belowHalfPower(pattern[i + 1], pattern[maxIdx + 1])}
    IN  IF below = {} THEN maxIdx ELSE maxOf(below)

\* lines 183-188: the nearest such index at or right of maxIdx
rightIndex(pattern, maxIdx) ==
    LET below == {i \in maxIdx..(Len(pattern) - 1) :
                    belowHalfPower(pattern[i + 1], pattern[maxIdx + 1])}
    IN  IF below = {} THEN maxIdx ELSE CHOOSE i \in below : \A k \in below : i <= k

\* lines 191-198: the largest value left of leftIdx or right of rightIdx
sidelobeLevel(pattern, leftIdx, rightIdx) ==
    maxOf({pattern[i + 1] : i \in {k \in 0..(Len(pattern) - 1) : k < leftIdx \/ k > rightIdx}})

\* lines 162-201; the direction and the width are kept as grid indices
analyzeBeamPattern(pattern) ==
    LET maxIdx == peakIndex(pattern)
        leftIdx == leftIndex(pattern, maxIdx)
        rightIdx == rightIndex(pattern, maxIdx)
    IN  [maxIdx |-> maxIdx, leftIdx |-> leftIdx, rightIdx |-> rightIdx,
         sll |-> sidelobeLevel(pattern, leftIdx, rightIdx)]

AnalyzeBeamPatternCall ==
    /\ fnPc = "Ready"
    /\ \E pattern \in BeamPatterns :
          /\ fnCall' = [op |-> "analyzeBeamPattern", pattern |-> pattern]
          /\ fnOut' = analyzeBeamPattern(pattern)
    /\ fnPc' = "Returned"
    /\ UNCHANGED notFnVars

BeamPatternNext == AnalyzeBeamPatternCall

\* the contiguous run of grid points at or above half power around the peak
halfPowerRun(pattern, maxIdx) ==
    {i \in 0..(Len(pattern) - 1) :
        \A k \in (IF i < maxIdx THEN i ELSE maxIdx)..(IF i < maxIdx THEN maxIdx ELSE i) :
            ~belowHalfPower(pattern[k + 1], pattern[maxIdx + 1])}

\* C24: no grid point of the run of values at or above peak/sqrt(2) around
\* the global peak contributes to the sidelobe level, also when the run
\* reaches the first or the last grid point: the reported level is no higher
\* than the largest value outside the run.
C24_MainLobeExcludedFromSidelobes ==
    (fnPc = "Returned" /\ fnCall.op = "analyzeBeamPattern") =>
        fnOut.sll <= maxOf({fnCall.pattern[i + 1] :
                              i \in (0..(Len(fnCall.pattern) - 1))
                                      \ halfPowerRun(fnCall.pattern, fnOut.maxIdx)})

(***************************************************************************)
(* unnamed/part_020: the angles returned by ESPRITEstimator.EstimateDOA,   *)
(* TLS_ESPRITEstimator.EstimateDOA and the ESPRIT branch of                *)
(* Estimator.Estimate, each as one call.  ESPRIT and TLS-ESPRIT angles are *)
(* given by their sine <<num, den>> (<<0, 0>> is NaN); the angles of       *)
(* Estimator.espritAlgorithm are given as <<num, den>> in units of pi.     *)
(***************************************************************************)

\* the configurations of an estimator after NewESPRITEstimator; ElementSpacing
\* in quarter wavelengths
AngleConfigs ==
    {configAfterNew(config) :
        config \in [NumAntennas : 2..MaxAntennas, NumSources : 1..MaxAntennas,
                    ElementSpacing : {0, 1, 2, 4}, SnapshotLength : {4}]}

\* ESPRITEstimator.EstimateDOA, lines 50-87, both factorizations succeeding
EspritEstimateDOACall ==
    /\ fnPc = "Ready"
    /\ \E config \in AngleConfigs, X \in SnapshotInputs :
         \E order \in SvdOrders(realCovOf(computeCovarianceMatrix(X))) :
            \E out \in {estimateDOA(config, X, TRUE, TRUE, order)} :
               /\ fnCall' = [op |-> "ESPRIT", config |-> config, signal |-> X]
               /\ fnOut' = [result |-> out.result, err |-> out.err]
    /\ fnPc' = "Returned"
    /\ UNCHANGED notFnVars

\* the largest array handed to TLS-ESPRIT, which reads the antenna count off the
\* received signal and needs NumSources + 2 antennas to return angles
MaxTlsAntennas == 4
TlsSignals == UNION {ConcurrentSignals(m) : m \in 2..MaxTlsAntennas}

\* TLS_ESPRITEstimator.EstimateDOA, lines 428-447
TLSEstimateDOACall ==
    /\ fnPc = "Ready"
    /\ \E config \in AngleConfigs, X \in TlsSignals :
          /\ fnCall' = [op |-> "TLS", config |-> config, signal |-> X]
          /\ fnOut' = tlsEstimateDOA(config, X)
    /\ fnPc' = "Returned"
    /\ UNCHANGED notFnVars

\* the data and parameters handed to Estimator.Estimate with Method "ESPRIT"
DOAData == UNION {[1..n -> {<<1, 0>>, <<0, 1>>}] : n \in 0..2}
DOAParams ==
    [ElementCount : 0..MaxAntennas, NumSources : 1..MaxAntennas, SnapshotLength : {1, 2}]

\* lines 581-599 with 600-655: X[0] of an empty X, t % len(data) of empty data
\* and eigenvectors[i] past the ElementCount rows panic; otherwise angle i is
\* -pi/4 + i*pi/(2*NumSources)
espritAlgorithm(data, p) ==
    IF p.ElementCount = 0 \/ Len(data) = 0 \/ p.NumSources > p.ElementCount
    THEN [angles |-> <<>>, err |-> "panic"]
    ELSE [angles |-> [i \in 1..p.NumSources |->
                        <<2 * (i - 1) - p.NumSources, 4 * p.NumSources>>],
          err |-> Nil]

\* Estimator.Estimate, lines 507-535, case "ESPRIT"
EstimatorEspritCall ==
    /\ fnPc = "Ready"
    /\ \E data \in DOAData, p \in DOAParams :
          /\ fnCall' = [op |-> "Estimate", data |-> data, params |-> p]
          /\ fnOut' = espritAlgorithm(data, p)
    /\ fnPc' = "Returned"
    /\ UNCHANGED notFnVars

AnglesNext ==
    \/ EspritEstimateDOACall
    \/ TLSEstimateDOACall
    \/ EstimatorEspritCall

\* the sine s = <<num, den>> is a number of [-1, 1]: its asin is a real angle
\* of [-pi/2, pi/2]
definedAngle(s) == s[2] > 0 /\ -s[2] <= s[1] /\ s[1] <= s[2]

\* C25: every angle returned by ESPRIT and by TLS-ESPRIT, for every source
\* count and element spacing, is the asin of a value clamped to [-1, 1]: a
\* defined real number in [-pi/2, pi/2].
C25_ReturnedAnglesAreDefined ==
    (fnPc = "Returned" /\ fnCall.op \in {"ESPRIT", "TLS"} /\ fnOut.err = Nil) =>
        \A i \in 1..Len(fnOut.result.Angles) : definedAngle(fnOut.result.Angles[i])


\* the signal subspace TLS-ESPRIT extracts from the signal X
tlsSubspaceOf(X, K) ==
    extractSignalSubspace(computeCovarianceMatrix(X), K, TRUE,
                          svdOrderOf(computeCovarianceMatrix(X))).val

\* some other signal with a different signal subspace, handed to the same
\* TLS-ESPRIT estimator, is answered with different angles
tlsAnglesFollowSubspace ==
    \E Y \in TlsSignals :
        /\ tlsSubspaceOf(Y, fnCall.config.NumSources)
             # tlsSubspaceOf(fnCall.signal, fnCall.config.NumSources)
        /\ tlsEstimateDOA(fnCall.config, Y).err = Nil
        /\ tlsEstimateDOA(fnCall.config, Y).result.Angles # fnOut.result.Angles

\* some other data, handed to Estimator.Estimate with the same parameters, is
\* answered with different angles
estimatorAnglesFollowData ==
    \E data \in DOAData :
        /\ espritAlgorithm(data, fnCall.params).err = Nil
        /\ espritAlgorithm(data, fnCall.params).angles # fnOut.angles

\* C26: the angles of TLS-ESPRIT, and of the ESPRIT branch of
\* Estimator.Estimate, are computed from the signal subspace of the received
\* data: they are not a function of the source count and the element spacing
\* alone, so for a call that returned angles there is an input with another
\* signal subspace that is answered with other angles.
C26_AnglesDependOnSubspace ==
    /\ (fnPc = "Returned" /\ fnCall.op = "TLS" /\ fnOut.err = Nil)
          => tlsAnglesFollowSubspace
    /\ (fnPc = "Returned" /\ fnCall.op = "Estimate" /\ fnOut.err = Nil)
          => estimatorAnglesFollowData

(***************************************************************************)
(* WorkerPool.Stop and SubmitAndWait (pkg/pool/worker.go).  One goroutine  *)
(* makes the Submit and SubmitAndWait calls one after the other and then   *)
(* calls Stop.                                                             *)
(***************************************************************************)

callerFree == pool.waiting = 0 /\ pool.stop = "NotCalled"

\* lines 58-65, called before Stop
PoolSubmitBeforeStop == callerFree /\ PoolSubmit

\* lines 67-72: the send of the wrapped task waits for a receiving worker or
\* for room in the buffer; then the caller waits on resultChan
PoolSubmitAndWait ==
    /\ callerFree
    /\ pool.started
    /\ Len(pSubmitted) < MaxPoolTasks
    /\ LET task == Len(pSubmitted) + 1
       IN  /\ \/ /\ parkedWorkers # {}
                 /\ \E w \in parkedWorkers :
                       pWorkers' = [pWorkers EXCEPT ![w] = [pc |-> "Exec", task |-> task]]
                 /\ UNCHANGED pTaskQueue
              \/ /\ parkedWorkers = {}
                 /\ bufferHasRoom(pTaskQueue, pool.queueSize)
                 /\ pTaskQueue' = Append(pTaskQueue, task)
                 /\ UNCHANGED pWorkers
           /\ pool' = [pool EXCEPT !.waiting = task]
    /\ pSubmitted' = Append(pSubmitted, TRUE)
    /\ pExecuted' = Append(pExecuted, 0)
    /\ UNCHANGED pResults
    /\ UNCHANGED notPoolVars

\* lines 73-75: the wrapped task has put its Result in resultChan (capacity 1)
PoolSubmitAndWaitReturn ==
    /\ pool.waiting # 0
    /\ pExecuted[pool.waiting] = 1
    /\ pool' = [pool EXCEPT !.waiting = 0]
    /\ UNCHANGED <<pTaskQueue, pResults, pWorkers, pSubmitted, pExecuted>>
    /\ UNCHANGED notPoolVars

\* line 83
PoolStopCancel ==
    /\ callerFree
    /\ pool.started
    /\ pool' = [pool EXCEPT !.stop = "Cancelled", !.ctxDone = TRUE]
    /\ UNCHANGED <<pTaskQueue, pResults, pWorkers, pSubmitted, pExecuted>>
    /\ UNCHANGED notPoolVars

\* line 84
PoolStopClose ==
    /\ pool.stop = "Cancelled"
    /\ pool' = [pool EXCEPT !.stop = "Waiting", !.closed = TRUE]
    /\ UNCHANGED <<pTaskQueue, pResults, pWorkers, pSubmitted, pExecuted>>
    /\ UNCHANGED notPoolVars

allWorkersExited == \A w \in DOMAIN pWorkers : pWorkers[w].pc = "Exited"

\* lines 85-86: wg.Wait returns when every worker has run its deferred Done
PoolStopReturn ==
    /\ pool.stop = "Waiting"
    /\ allWorkersExited
    /\ pool' = [pool EXCEPT !.stop = "Returned"]
    /\ UNCHANGED <<pTaskQueue, pResults, pWorkers, pSubmitted, pExecuted>>
    /\ UNCHANGED notPoolVars

\* lines 45-51: in its select the worker returns on the cancelled context (also
\* with tasks buffered: the select picks any ready case) or on the closed and
\* drained channel
PoolWorkerExit(w) ==
    /\ pWorkers[w].pc \in {"Select", "Parked"}
    /\ pool.ctxDone \/ (pool.closed /\ pTaskQueue = <<>>)
    /\ pWorkers' = [pWorkers EXCEPT ![w] = [pc |-> "Exited", task |-> 0]]
    /\ UNCHANGED <<pool, pTaskQueue, pResults, pSubmitted, pExecuted>>
    /\ UNCHANGED notPoolVars

PoolStopNext ==
    \/ PoolStart
    \/ PoolSubmitBeforeStop
    \/ PoolSubmitAndWait
    \/ PoolSubmitAndWaitReturn
    \/ \E w \in DOMAIN pWorkers : PoolWorkerReceive(w)
    \/ \E w \in DOMAIN pWorkers : PoolWorkerPark(w)
    \/ \E w \in DOMAIN pWorkers : PoolWorkerExecute(w)
    \/ \E w \in DOMAIN pWorkers : PoolWorkerSendResult(w)
    \/ \E w \in DOMAIN pWorkers : PoolWorkerExit(w)
    \/ PoolReadResult
    \/ \E w \in DOMAIN pWorkers : PoolHandResult(w)
    \/ PoolStopCancel
    \/ PoolStopClose
    \/ PoolStopReturn

\* every goroutine that can take a step is scheduled eventually: the workers,
\* and the caller inside SubmitAndWait and Stop; nothing obliges a consumer to
\* read Results()
PoolStopFairness ==
    /\ \A w \in UNION {1..n : n \in PoolWorkerCounts} :
          WF_poolVars(w \in DOMAIN pWorkers /\ (PoolWorkerStep(w) \/ PoolWorkerExit(w)))
    /\ WF_poolVars(PoolSubmitAndWaitReturn)
    /\ WF_poolVars(PoolStopClose)
    /\ WF_poolVars(PoolStopReturn)

\* C27: once Stop is called on a started pool, after any Submit and
\* SubmitAndWait calls, it returns at some time: all workers have exited and
\* results is closed, also with nobody reading Results().
C27_StopReturns ==
    (pool.stop = "Cancelled") ~> (pool.stop = "Returned" /\ allWorkersExited)

(***************************************************************************)
(* TaskQueue.Stop (pkg/queue/task.go, lines 161-165), called on a started  *)
(* queue when no Submit call is in progress; no Submit is made afterwards  *)
(* (a send on the closed channel panics).                                  *)
(***************************************************************************)

stopNotCalled == taskQueue.stop = "NotCalled"

SubmitStoreBeforeStop(c) == stopNotCalled /\ SubmitStore(c)

\* line 162
QueueStopCancel ==
    /\ stopNotCalled
    /\ taskQueue.started
    /\ \A c \in Submitters : qSubmit[c].pc = "Idle"
    /\ taskQueue' = [taskQueue EXCEPT !.stop = "Cancelled", !.ctxDone = TRUE,
                                      !.before = submittedIds]
    /\ UNCHANGED <<qHandlers, qTasks, qCh, qSubmit, qWorkers>>
    /\ UNCHANGED notTqVars

\* line 163
QueueStopClose ==
    /\ taskQueue.stop = "Cancelled"
    /\ taskQueue' = [taskQueue EXCEPT !.stop = "Waiting", !.closed = TRUE]
    /\ UNCHANGED <<qHandlers, qTasks, qCh, qSubmit, qWorkers>>
    /\ UNCHANGED notTqVars

\* line 164: wg.Wait returns when every worker has run its deferred Done
QueueStopReturn ==
    /\ taskQueue.stop = "Waiting"
    /\ \A w \in DOMAIN qWorkers : qWorkers[w].pc = "Exited"
    /\ taskQueue' = [taskQueue EXCEPT !.stop = "Returned"]
    /\ UNCHANGED <<qHandlers, qTasks, qCh, qSubmit, qWorkers>>
    /\ UNCHANGED notTqVars

\* lines 91-97: in its select the worker returns on the cancelled context (also
\* with tasks buffered: the select picks any ready case) or on the closed and
\* drained channel
WorkerExit(w) ==
    /\ qWorkers[w].pc = "Select"
    /\ taskQueue.ctxDone \/ (taskQueue.closed /\ qCh = <<>>)
    /\ qWorkers' = [qWorkers EXCEPT ![w] = [pc |-> "Exited", task |-> 0]]
    /\ UNCHANGED <<taskQueue, qHandlers, qTasks, qCh, qSubmit>>
    /\ UNCHANGED notTqVars

QueueStopNext ==
    \/ \E taskType \in HandledTypes : RegisterHandler(taskType)
    \/ \E c \in Submitters : SubmitStoreBeforeStop(c)
    \/ \E c \in Submitters : SubmitSend(c)
    \/ QueueStart
    \/ \E w \in DOMAIN qWorkers : WorkerReceive(w)
    \/ \E w \in DOMAIN qWorkers : \E c \in Submitters : WorkerReceiveFromSender(w, c)
    \/ \E w \in DOMAIN qWorkers : ProcessMarkRunning(w)
    \/ \E w \in DOMAIN qWorkers : ProcessLookup(w)
    \/ \E w \in DOMAIN qWorkers : ProcessHandler(w)
    \/ \E w \in DOMAIN qWorkers : WorkerExit(w)
    \/ QueueStopCancel
    \/ QueueStopClose
    \/ QueueStopReturn

\* C28: when Stop has returned, every task whose Submit completed before Stop
\* was called is Completed or Failed: none is left Pending in the channel
\* buffer or Running.
C28_StoppedQueueLeavesNoTask ==
    taskQueue.stop = "Returned" => \A id \in taskQueue.before : terminal(id)

(***************************************************************************)
(* unnamed/part_010, package gateway: RateLimiter.  Every request runs     *)
(* createProxyHandler in a goroutine of its own, and Allow takes no lock:  *)
(* the goroutines interleave between the loads and stores of Allow.  (The  *)
(* Go runtime may instead abort the process when it detects the unguarded  *)
(* map accesses; the interleavings below are the runs in which it does     *)
(* not.)                                                                   *)
(***************************************************************************)

\* the request handler goroutines and the client IPs
Handlers == {1, 2}
Clients == {"10.0.0.1", "10.0.0.2"}

\* how many Allow calls are made, and the latest time
MaxAllowCalls == 4
MaxClock == 2

Limits == {1, 2}
Windows == {1}

\* lines 44-50
NewRateLimiter(limit, window) ==
    [limit |-> limit, window |-> window, requests |-> [c \in Clients |-> 0]]

idleHandler == [pc |-> "Idle", client |-> "", now |-> 0, info |-> 0, count |-> 0]

callsMade == Len(rlAllowed.granted) + rlAllowed.denied

\* lines 110-112 and 53-54: the handler calls Allow, which reads the clock and
\* looks the client up in the map
AllowLookup(h) ==
    /\ rlCalls[h].pc = "Idle"
    /\ callsMade + Cardinality({g \in Handlers : rlCalls[g].pc # "Idle"}) < MaxAllowCalls
    /\ \E clientID \in Clients :
          rlCalls' = [rlCalls EXCEPT ![h] =
                        [pc |-> "Decide", client |-> clientID, now |-> rlClock,
                         info |-> rateLimiter.requests[clientID], count |-> 0]]
    /\ UNCHANGED <<rateLimiter, rlInfos, rlClock, rlAllowed>>
    /\ UNCHANGED notRlVars

granted(h, opens) ==
    [rlAllowed EXCEPT !.granted =
        Append(@, [client |-> rlCalls[h].client, now |-> rlCalls[h].now, opens |-> opens])]

\* lines 56-62: no entry, or the window is over: a new ClientInfo is stored
AllowNewWindow(h) ==
    /\ rlCalls[h].pc = "Decide"
    /\ IF rlCalls[h].info = 0 THEN TRUE
       ELSE rlCalls[h].now > rlInfos[rlCalls[h].info].ResetTime
    /\ rlInfos' = Append(rlInfos, [Count |-> 1,
                                   ResetTime |-> rlCalls[h].now + rateLimiter.window])
    /\ rateLimiter' = [rateLimiter EXCEPT !.requests[rlCalls[h].client] = Len(rlInfos) + 1]
    /\ rlAllowed' = granted(h, TRUE)
    /\ rlCalls' = [rlCalls EXCEPT ![h] = idleHandler]
    /\ UNCHANGED rlClock
    /\ UNCHANGED notRlVars

\* lines 65-67: the count has reached the limit
AllowDeny(h) ==
    /\ rlCalls[h].pc = "Decide"
    /\ rlCalls[h].info # 0
    /\ rlCalls[h].now <= rlInfos[rlCalls[h].info].ResetTime
    /\ rlInfos[rlCalls[h].info].Count >= rateLimiter.limit
    /\ rlAllowed' = [rlAllowed EXCEPT !.denied = @ + 1]
    /\ rlCalls' = [rlCalls EXCEPT ![h] = idleHandler]
    /\ UNCHANGED <<rateLimiter, rlInfos, rlClock>>
    /\ UNCHANGED notRlVars

\* lines 65 and 69: the count is below the limit, and info.Count++ loads it
AllowLoadCount(h) ==
    /\ rlCalls[h].pc = "Decide"
    /\ rlCalls[h].info # 0
    /\ rlCalls[h].now <= rlInfos[rlCalls[h].info].ResetTime
    /\ rlInfos[rlCalls[h].info].Count < rateLimiter.limit
    /\ rlCalls' = [rlCalls EXCEPT ![h].pc = "Store",
                                  ![h].count = rlInfos[rlCalls[h].info].Count]
    /\ UNCHANGED <<rateLimiter, rlInfos, rlClock, rlAllowed>>
    /\ UNCHANGED notRlVars

\* lines 69-70: info.Count++ stores the incremented count
AllowStoreCount(h) ==
    /\ rlCalls[h].pc = "Store"
    /\ rlInfos' = [rlInfos EXCEPT ![rlCalls[h].info].Count = rlCalls[h].count + 1]
    /\ rlAllowed' = granted(h, FALSE)
    /\ rlCalls' = [rlCalls EXCEPT ![h] = idleHandler]
    /\ UNCHANGED <<rateLimiter, rlClock>>
    /\ UNCHANGED notRlVars

\* time passes
ClockTick ==
    /\ rlClock < MaxClock
    /\ rlClock' = rlClock + 1
    /\ UNCHANGED <<rateLimiter, rlInfos, rlCalls, rlAllowed>>
    /\ UNCHANGED notRlVars

RlInit ==
    /\ rateLimiter \in {NewRateLimiter(limit, window) :
                           limit \in Limits, window \in Windows}
    /\ rlInfos = <<>>
    /\ rlCalls = [h \in Handlers |-> idleHandler]
    /\ rlClock = 0
    /\ rlAllowed = [granted |-> <<>>, denied |-> 0]

RlIdle ==
    /\ rateLimiter = None
    /\ rlInfos = <<>>
    /\ rlCalls = <<>>
    /\ rlClock = 0
    /\ rlAllowed = None

RlNext ==
    \/ \E h \in Handlers : AllowLookup(h)
    \/ \E h \in Handlers : AllowNewWindow(h)
    \/ \E h \in Handlers : AllowDeny(h)
    \/ \E h \in Handlers : AllowLoadCount(h)
    \/ \E h \in Handlers : AllowStoreCount(h)
    \/ ClockTick

\* the Allow calls of a client that returned true within the window opened at
\* time start: from start until the reset time start + window
grantedInWindow(clientID, start) ==
    {i \in 1..Len(rlAllowed.granted) :
        /\ rlAllowed.granted[i].client = clientID
        /\ rlAllowed.granted[i].now >= start
        /\ rlAllowed.granted[i].now <= start + rateLimiter.window}

\* C29: for each client, at most limit Allow calls return true within one
\* window, from the first allowed call until its reset time, however the
\* concurrent calls of the request handlers interleave.
C29_AtMostLimitPerWindow ==
    \A i \in 1..Len(rlAllowed.granted) :
        rlAllowed.granted[i].opens =>
            Cardinality(grantedInWindow(rlAllowed.granted[i].client,
                                        rlAllowed.granted[i].now)) <= rateLimiter.limit

(***************************************************************************)
(* pkg/logger/lumberjack.go: L1Cache.  Set and Delete run under c.mu, so   *)
(* each call is one step.  items maps a key to the Expiration of its       *)
(* CacheItem; the values are left out.                                     *)
(***************************************************************************)

\* the keys, the capacities and the ttl arguments of Set
CacheKeys == {"", "a", "b"}
CacheSizes == {1, 2}
Ttls == {1, 2}

\* the latest time
MaxCacheClock == 3

\* lines 178-183
NewL1Cache(size) == [size |-> size, items |-> <<>>]

withoutKey(items, key) == [k \in DOMAIN items \ {key} |-> items[k]]

\* lines 221-235: the keys the range loop can end with as oldestKey: "" when
\* no Expiration is before now, and otherwise any key holding the earliest
\* Expiration (the first of them in the map's iteration order)
oldestKeys(items, now) ==
    LET expired == {k \in DOMAIN items : items[k] < now}
    IN  IF expired = {} THEN {""}
        ELSE {k \in expired : \A other \in expired : items[k] <= items[other]}

\* lines 221-235: the key is deleted unless it is ""
evict(items, oldestKey) ==
    IF oldestKey # "" THEN withoutKey(items, oldestKey) ELSE items

\* lines 201-213
L1Set(key, ttl) ==
    /\ \E oldestKey \in oldestKeys(l1Cache.items, l1Clock) :
          LET kept == IF Cardinality(DOMAIN l1Cache.items) >= l1Cache.size
                      THEN evict(l1Cache.items, oldestKey)
                      ELSE l1Cache.items
          IN  l1Cache' = [l1Cache EXCEPT !.items =
                            [k \in DOMAIN kept \cup {key} |->
                                IF k = key THEN l1Clock + ttl ELSE kept[k]]]
    /\ l1Last' = [op |-> "Set", key |-> key,
                  full |-> Cardinality(DOMAIN l1Cache.items) >= l1Cache.size,
                  expired |-> \E k \in DOMAIN l1Cache.items : l1Cache.items[k] < l1Clock]
    /\ UNCHANGED l1Clock
    /\ UNCHANGED notL1Vars

\* lines 215-219
L1Delete(key) ==
    /\ l1Cache' = [l1Cache EXCEPT !.items = withoutKey(@, key)]
    /\ l1Last' = [op |-> "Delete", key |-> key, full |-> FALSE, expired |-> FALSE]
    /\ UNCHANGED l1Clock
    /\ UNCHANGED notL1Vars

\* time passes
L1Tick ==
    /\ l1Clock < MaxCacheClock
    /\ l1Clock' = l1Clock + 1
    /\ UNCHANGED <<l1Cache, l1Last>>
    /\ UNCHANGED notL1Vars

L1Init ==
    /\ l1Cache \in {NewL1Cache(size) : size \in CacheSizes}
    /\ l1Clock = 0
    /\ l1Last = None

L1Idle ==
    /\ l1Cache = None
    /\ l1Clock = 0
    /\ l1Last = None

L1Next ==
    \/ \E key \in CacheKeys, ttl \in Ttls : L1Set(key, ttl)
    \/ \E key \in CacheKeys : L1Delete(key)
    \/ L1Tick

\* C30: after any sequence of Set and Delete calls the cache holds at most
\* size entries, also after a Set on a full cache none of whose entries had
\* expired.
C30_AtMostSizeEntries ==
    Cardinality(DOMAIN l1Cache.items) <= l1Cache.size

vars == <<optVars, espVars, mvdrVars, musVars, conVars, mcVars, fnVars, tqVars, poolVars, rlVars, l1Vars>>

InitOptimizer == OptInit /\ EspIdle /\ MvdrIdle /\ MusIdle /\ ConIdle /\ McIdle /\ FnIdle /\ TqIdle /\ PoolIdle /\ RlIdle /\ L1Idle
InitESPRIT == EspInit /\ OptIdle /\ MvdrIdle /\ MusIdle /\ ConIdle /\ McIdle /\ FnIdle /\ TqIdle /\ PoolIdle /\ RlIdle /\ L1Idle
InitWeights == MvdrInit /\ OptIdle /\ EspIdle /\ MusIdle /\ ConIdle /\ McIdle /\ FnIdle /\ TqIdle /\ PoolIdle /\ RlIdle /\ L1Idle
InitMUSIC == MusInit /\ OptIdle /\ EspIdle /\ MvdrIdle /\ ConIdle /\ McIdle /\ FnIdle /\ TqIdle /\ PoolIdle /\ RlIdle /\ L1Idle
InitConcurrent == ConInit /\ OptIdle /\ EspIdle /\ MvdrIdle /\ MusIdle /\ McIdle /\ FnIdle /\ TqIdle /\ PoolIdle /\ RlIdle /\ L1Idle
InitMonteCarlo == McInit /\ OptIdle /\ EspIdle /\ MvdrIdle /\ MusIdle /\ ConIdle /\ FnIdle /\ TqIdle /\ PoolIdle /\ RlIdle /\ L1Idle
InitCalls == FnInit /\ OptIdle /\ EspIdle /\ MvdrIdle /\ MusIdle /\ ConIdle /\ McIdle /\ TqIdle /\ PoolIdle /\ RlIdle /\ L1Idle
InitTaskQueue == TqInit /\ OptIdle /\ EspIdle /\ MvdrIdle /\ MusIdle /\ ConIdle /\ McIdle /\ FnIdle /\ PoolIdle /\ RlIdle /\ L1Idle
InitWorkerPool == PoolInit /\ OptIdle /\ EspIdle /\ MvdrIdle /\ MusIdle /\ ConIdle /\ McIdle /\ FnIdle /\ TqIdle /\ RlIdle /\ L1Idle
InitRateLimiter == RlInit /\ OptIdle /\ EspIdle /\ MvdrIdle /\ MusIdle /\ ConIdle /\ McIdle /\ FnIdle /\ TqIdle /\ PoolIdle /\ L1Idle
InitL1Cache == L1Init /\ OptIdle /\ EspIdle /\ MvdrIdle /\ MusIdle /\ ConIdle /\ McIdle /\ FnIdle /\ TqIdle /\ PoolIdle /\ RlIdle

SpecOptimizer == InitOptimizer /\ [][OptNext]_vars
SpecESPRIT == InitESPRIT /\ [][EspNext]_vars
SpecWeights == InitWeights /\ [][MvdrNext]_vars
SpecMUSIC == InitMUSIC /\ [][MusNext]_vars
SpecConcurrent == InitConcurrent /\ [][ConNext]_vars
SpecMonteCarlo == InitMonteCarlo /\ [][McNext]_vars
SpecRMSE == InitCalls /\ [][RmseNext]_vars
SpecQuantization == InitCalls /\ [][QuantNext]_vars
SpecClosedForm == InitCalls /\ [][ClosedFormNext]_vars
SpecTaskQueue == InitTaskQueue /\ [][TqNext]_vars /\ TqFairness
SpecWorkerPool == InitWorkerPool /\ [][PoolNext]_vars /\ PoolFairness
SpecBeamPattern == InitCalls /\ [][BeamPatternNext]_vars
SpecAngles == InitCalls /\ [][AnglesNext]_vars
SpecPoolStop == InitWorkerPool /\ [][PoolStopNext]_vars /\ PoolStopFairness
SpecQueueStop == InitTaskQueue /\ [][QueueStopNext]_vars
SpecRateLimiter == InitRateLimiter /\ [][RlNext]_vars
SpecL1Cache == InitL1Cache /\ [][L1Next]_vars

=============================================================================
